---- MODULE Spec2Model ----
(***************************************************************************)
(* A model of the segment pipeline of the video-translation backend:       *)
(* the Provider Gateway (app/utils/llm_client.py), the Transcriber, the    *)
(* Context Builder, the Translator and the serializers                     *)
(* (app/services/*.py).                                                    *)
(*                                                                         *)
(* Conventions.                                                            *)
(*  - A Python str is a sequence of one-character strings, so that         *)
(*    len(), strip(), split(), slicing and join are computed as Python     *)
(*    computes them.  Identifiers that the code only compares (language    *)
(*    codes, provider names, paths) are TLA+ strings.                      *)
(*  - Python's None is the string "None"; it is never used as a provider   *)
(*    name or a path.                                                      *)
(*  - A time (a Python float of seconds) is its value in units of 0.1 ms:   *)
(*    3.0 s is 30000 and 1.50005 s is 15000 plus 5 tenths of a             *)
(*    millisecond.  Arithmetic on times is exact.                          *)
(*  - One behaviour is one top-level invocation: Init is the process after *)
(*    the module-level singletons are constructed, a Call action is the    *)
(*    caller entering an operation, and a Respond action is the blocking   *)
(*    backend (network) call of that operation returning.  Everything the  *)
(*    code does between two blocking calls is one step.  After a           *)
(*    serializer invocation that writes or generates, the caller may go on *)
(*    to the operation that reads the output back; call and result then   *)
(*    describe that second invocation.                                     *)
(***************************************************************************)
EXTENDS Integers, Sequences, FiniteSets, TLC

VARIABLES
    settings,       \* app.utils.config.settings (the fields the pipeline reads)
    openai_client,  \* LLMClient.openai_client
    gemini_client,  \* LLMClient.gemini_client
    fs,             \* the file system: [dirs: set of paths, files: path -> content]
    pc,             \* "idle", "wait" (blocked in a backend call) or "done"
    call,           \* the top-level invocation: [op, ...arguments]
    locals,         \* the invocation's local variables
    net,            \* the backend request in flight, or NoRequest
    netLog,         \* backend calls completed so far: <<[req, resp], ...>>
    gwLog,          \* Provider Gateway methods entered so far
    result          \* what the invocation returned or raised

vars == <<settings, openai_client, gemini_client, fs, pc, call, locals,
          net, netLog, gwLog, result>>

----------------------------------------------------------------------------
(* Bounds of the model *)

MaxSegs == 2

----------------------------------------------------------------------------
(* Python str helpers *)

None == "None"

WS == {" ", "\n", "\t", "\r"}

Spaces(n) == [i \in 1..n |-> " "]

\* str.strip(): drop leading and trailing whitespace
Strip(s) ==
    LET keep == {i \in 1..Len(s) : s[i] \notin WS}
    IN  IF keep = {} THEN <<>>
        ELSE LET lo == CHOOSE i \in keep : \A j \in keep : i <= j
                 hi == CHOOSE i \in keep : \A j \in keep : j <= i
             IN  SubSeq(s, lo, hi)

\* len(s.split()): the number of maximal runs of non-whitespace
WordCount(s) ==
    Cardinality({i \in 1..Len(s) : s[i] \notin WS /\ (i = 1 \/ s[i-1] \in WS)})

\* s[:n]
Prefix(s, n) == SubSeq(s, 1, IF Len(s) < n THEN Len(s) ELSE n)

\* " ".join(texts)
RECURSIVE JoinSpace(_)
JoinSpace(texts) ==
    IF texts = <<>> THEN <<>>
    ELSE IF Len(texts) = 1 THEN texts[1]
    ELSE texts[1] \o <<" ">> \o JoinSpace(Tail(texts))

\* not x, for the values the code tests for truth (None, "", a non-empty str)
Falsy(x) == x = None \/ x = ""

----------------------------------------------------------------------------
(* Values the inputs are drawn from *)

TextHello == <<"H","e","l","l","o">>
TextHey   == Spaces(2) \o <<"h","e","y">> \o Spaces(3)
TextHi    == Spaces(3) \o <<"h","i">> \o Spaces(6)

\* SegB follows SegA; SegC overlaps both and starts off a whole millisecond
SegA == [start |-> 0,     end |-> 30000, text |-> TextHello]
SegB == [start |-> 30000, end |-> 60000, text |-> TextHey]
SegC == [start |-> 15005, end |-> 40000, text |-> TextHi]

SegPool == {SegA, SegB, SegC}

\* the two-segment transcript "Hello" (0.0-3.0), "World" (3.0-6.0)
TextWorld == <<"W","o","r","l","d">>

SegW == [start |-> 30000, end |-> 60000, text |-> TextWorld]

HelloWorld == <<SegA, SegW>>

SegLists == UNION {[1..n -> SegPool] : n \in 0..MaxSegs}

LanguageArgs == {"en", "es", "xyz"}

ProviderArgs == {None, "", "openai", "gemini", "azure"}

ContextArg == <<"c","t","x">>

\* batch sizes: none, smaller than a list of two, and the default
BatchSizes == {0, 1, 5}

\* what a chat backend may answer (message content / response.text)
ChatReplies == { <<" ","h","o","l","a"," ">>, <<"a","d","i","o","s","\n">> }

ApiKeys == {"", "sk-key"}

\* DEFAULT_LLM_PROVIDER comes from the environment; validate() only warns
DefaultProviders == {"openai", "gemini", "azure"}

----------------------------------------------------------------------------
(* Results, errors and backend requests *)

Returned(v) == [status |-> "ok", value |-> v]

Raised(type, tag, info) ==
    [status |-> "error", type |-> type, tag |-> tag, info |-> info]

NoResult == [status |-> "none"]

NoRequest == [kind |-> "none"]

NoLocals == [i |-> 0, translated_segments |-> <<>>, full_text |-> <<>>,
             segments |-> <<>>]

\* the outcome of running a piece of code up to its next blocking call: it
\* returned or raised (out), or it is blocked in a backend request (req);
\* gw lists the Provider Gateway methods it entered on the way
Done(r) == [status |-> r.status, out |-> r, req |-> NoRequest, gw |-> <<>>]

Blocked(req) == [status |-> "blocked", out |-> NoResult, req |-> req, gw |-> <<>>]

WithGw(o, gw) == [o EXCEPT !.gw = gw \o @]

\* what a backend call may come back with: an exception, or an answer
ChatResponses ==
    {[ok |-> FALSE, content |-> <<>>]} \cup {[ok |-> TRUE, content |-> c] : c \in ChatReplies}

\* the answer of a stand-in backend that returns the text it was asked to
\* translate with "-ES" appended
StubResponse(req) == [ok |-> TRUE, content |-> req.prompt.text \o <<"-","E","S">>]

\* the stand-in backend is put behind translate_segments
StubResponses(op, req) == IF op = "translate_segments" THEN {StubResponse(req)} ELSE {}

----------------------------------------------------------------------------
(* app/utils/config.py *)

SUPPORTED_LANGUAGES ==
    <<"en","zh","hi","es","ar","fr","bn","pt","ru","ur",
      "id","de","ja","mr","te","tr","ta","vi","ko","sw">>

Supported(lang) == \E k \in 1..Len(SUPPORTED_LANGUAGES) : SUPPORTED_LANGUAGES[k] = lang

SettingsPool ==
    [OPENAI_API_KEY : ApiKeys, GEMINI_API_KEY : ApiKeys,
     DEFAULT_LLM_PROVIDER : DefaultProviders,
     OPENAI_MODEL : {"gpt-4o-audio-preview"},
     GEMINI_MODEL : {"gemini-2.0-flash-exp"}]

----------------------------------------------------------------------------
(* app/utils/llm_client.py : LLMClient *)

\* LLMClient.__init__: a client object exists iff the key is a non-empty str
LLMClientInit(s) ==
    [openai_client |-> IF Falsy(s.OPENAI_API_KEY) THEN None ELSE "OpenAI",
     gemini_client |-> IF Falsy(s.GEMINI_API_KEY) THEN None ELSE "GenAI"]

\* provider = provider or settings.DEFAULT_LLM_PROVIDER
ResolveProvider(provider) ==
    IF Falsy(provider) THEN settings.DEFAULT_LLM_PROVIDER ELSE provider

\* the f-string prompt of _translate_with_openai / _translate_with_gemini
TranslatePrompt(text, source_language, target_language, context) ==
    [template |-> "translator", context |-> context,
     source_language |-> source_language,
     target_language |-> target_language, text |-> text]

\* _translate_with_openai, up to chat.completions.create
TranslateWithOpenAI(text, source_language, target_language, context) ==
    IF openai_client = None
    THEN Done(Raised("ValueError", "NotConfigured", "openai"))
    ELSE Blocked([kind |-> "chat", provider |-> "openai",
                  model |-> settings.OPENAI_MODEL,
                  prompt |-> TranslatePrompt(text, source_language,
                                             target_language, context)])

\* (mutant) the Gemini path tests the OpenAI client
TranslateWithGeminiChecksOpenAI(text, source_language, target_language, context) ==
    IF openai_client = None
    THEN Done(Raised("ValueError", "NotConfigured", "gemini"))
    ELSE Blocked([kind |-> "chat", provider |-> "gemini",
                  model |-> settings.GEMINI_MODEL,
                  prompt |-> TranslatePrompt(text, source_language,
                                             target_language, context)])

\* _translate_with_gemini, up to models.generate_content
TranslateWithGemini(text, source_language, target_language, context) ==
    IF gemini_client = None
    THEN Done(Raised("ValueError", "NotConfigured", "gemini"))
    ELSE Blocked([kind |-> "chat", provider |-> "gemini",
                  model |-> settings.GEMINI_MODEL,
                  prompt |-> TranslatePrompt(text, source_language,
                                             target_language, context)])

\* (mutant) a failed backend call is answered with an empty translation
TranslateResumeSwallowsFailure(req, resp) ==
    IF resp.ok THEN Returned(Strip(resp.content))
    ELSE Returned(<<>>)

\* _translate_with_openai / _translate_with_gemini, from the backend's answer
\* on: a failure is wrapped, an answer is returned stripped
TranslateResume(req, resp) ==
    IF resp.ok THEN Returned(Strip(resp.content))
    ELSE Raised("Exception", "TranslationFailed", req.provider)

\* LLMClient.translate_with_context
TranslateWithContext(text, source_language, target_language, context, provider) ==
    LET p  == ResolveProvider(provider)
        gw == <<[method |-> "translate_with_context", provider |-> provider]>>
    IN  IF p = "openai"
        THEN WithGw(TranslateWithOpenAI(text, source_language, target_language, context), gw)
        ELSE IF p = "gemini"
        THEN WithGw(TranslateWithGemini(text, source_language, target_language, context), gw)
        ELSE WithGw(Done(Raised("ValueError", "UnknownProvider", p)), gw)

\* the prompt of _transcribe_with_gemini
TranscribePrompt(language) == [template |-> "transcribe", language |-> language]

\* file_handler.file_exists / what open(path, "rb") needs
FileExists(path) == path \in DOMAIN fs.files

\* _transcribe_with_openai, up to audio.transcriptions.create; the open()
\* is inside the try, so a missing file is wrapped like a backend failure
TranscribeWithOpenAI(audio_file_path, language) ==
    IF openai_client = None
    THEN Done(Raised("ValueError", "NotConfigured", "openai"))
    ELSE IF ~FileExists(audio_file_path)
    THEN Done(Raised("Exception", "TranscriptionFailed", "openai"))
    ELSE Blocked([kind |-> "transcription", provider |-> "openai",
                  model |-> settings.OPENAI_MODEL, file |-> audio_file_path,
                  language |-> language, response_format |-> "verbose_json"])

\* _transcribe_with_gemini, up to models.generate_content
TranscribeWithGemini(audio_file_path, language) ==
    IF gemini_client = None
    THEN Done(Raised("ValueError", "NotConfigured", "gemini"))
    ELSE IF ~FileExists(audio_file_path)
    THEN Done(Raised("Exception", "TranscriptionFailed", "gemini"))
    ELSE Blocked([kind |-> "generate", provider |-> "gemini",
                  model |-> settings.GEMINI_MODEL, file |-> audio_file_path,
                  prompt |-> TranscribePrompt(language)])

\* the segments _transcribe_with_openai builds from response.segments
StrippedSegments(segments) ==
    [k \in 1..Len(segments) |->
        [start |-> segments[k].start, end |-> segments[k].end,
         text |-> Strip(segments[k].text)]]

\* _transcribe_with_openai from the backend's answer on: the segments of the
\* response, or one segment 0.0-0.0 with the whole text when it has none
TranscribeResumeOpenAI(resp) ==
    IF ~resp.ok THEN Raised("Exception", "TranscriptionFailed", "openai")
    ELSE IF resp.has_segments /\ resp.segments # <<>>
    THEN Returned(StrippedSegments(resp.segments))
    ELSE Returned(<<[start |-> 0, end |-> 0, text |-> resp.text]>>)

\* _transcribe_with_gemini from the backend's answer on: json.loads of the
\* response text, returned as it is; a text that is no JSON is wrapped
TranscribeResumeGemini(resp) ==
    IF ~resp.ok THEN Raised("Exception", "TranscriptionFailed", "gemini")
    ELSE IF ~resp.is_json THEN Raised("Exception", "TranscriptionFailed", "gemini")
    ELSE Returned(resp.json)

TranscribeResume(req, resp) ==
    IF req.provider = "openai" THEN TranscribeResumeOpenAI(resp)
    ELSE TranscribeResumeGemini(resp)

\* LLMClient.transcribe_audio
LLMTranscribeAudio(audio_file_path, language, provider) ==
    LET p  == ResolveProvider(provider)
        gw == <<[method |-> "transcribe_audio", provider |-> provider]>>
    IN  IF p = "openai"
        THEN WithGw(TranscribeWithOpenAI(audio_file_path, language), gw)
        ELSE IF p = "gemini"
        THEN WithGw(TranscribeWithGemini(audio_file_path, language), gw)
        ELSE WithGw(Done(Raised("ValueError", "UnknownProvider", p)), gw)

----------------------------------------------------------------------------
(* app/services/translator.py : Translator *)

\* (mutant) only the source language is validated
TranslateSegmentNoTargetCheck(text, source_language, target_language, context, provider) ==
    IF ~Supported(source_language)
    THEN Done(Raised("ValueError", "SourceLanguageUnsupported",
                     [value |-> source_language, listed |-> SUPPORTED_LANGUAGES]))
    ELSE TranslateWithContext(text, source_language, target_language, context, provider)

\* Translator.translate_segment, up to the backend call
TranslateSegment(text, source_language, target_language, context, provider) ==
    IF ~Supported(source_language)
    THEN Done(Raised("ValueError", "SourceLanguageUnsupported",
                     [value |-> source_language, listed |-> SUPPORTED_LANGUAGES]))
    ELSE IF ~Supported(target_language)
    THEN Done(Raised("ValueError", "TargetLanguageUnsupported",
                     [value |-> target_language, listed |-> SUPPORTED_LANGUAGES]))
    ELSE TranslateWithContext(text, source_language, target_language, context, provider)

\* (mutant) the loop walks the list from its end
TranslateSegmentsFromTheEnd(c, i, translated_segments) ==
    IF i > Len(c.segments) THEN Done(Returned(translated_segments))
    ELSE IF "text" \notin DOMAIN c.segments[i]
    THEN Done(Raised("KeyError", "MissingKey", "text"))
    ELSE TranslateSegment(c.segments[Len(c.segments) + 1 - i].text, c.source_language,
                          c.target_language, c.context, c.provider)

\* the body of the for loop of translate_segments from segment i on, with
\* translated_segments as built so far, up to the next backend call; past
\* the last segment the list is returned
TranslateSegmentsFrom(c, i, translated_segments) ==
    IF i > Len(c.segments) THEN Done(Returned(translated_segments))
    ELSE IF "text" \notin DOMAIN c.segments[i]
    THEN Done(Raised("KeyError", "MissingKey", "text"))
    ELSE TranslateSegment(c.segments[i].text, c.source_language,
                          c.target_language, c.context, c.provider)

\* Translator.translate_segments, from its entry up to the first backend call
TranslateSegments(c) ==
    IF c.segments = <<>>
    THEN Done(Raised("ValueError", "EmptySegments", "translate"))
    ELSE TranslateSegmentsFrom(c, 1, <<>>)

\* (mutant) the batch entry point forgets to hand the provider on
TranslateSegmentsBatchDropsProvider(c) ==
    TranslateSegments([segments |-> c.segments, source_language |-> c.source_language,
                       target_language |-> c.target_language, context |-> c.context,
                       provider |-> None])

\* Translator.translate_segments_batch, up to the first backend call: it
\* awaits translate_segments with its own arguments, batch_size left out
TranslateSegmentsBatch(c) ==
    TranslateSegments([segments |-> c.segments, source_language |-> c.source_language,
                       target_language |-> c.target_language, context |-> c.context,
                       provider |-> c.provider])

\* (mutant) the translation overwrites the original text
TranslatedSegmentOverwritesText(segment, translated_text) ==
    [start |-> segment.start, end |-> segment.end, text |-> translated_text,
     translated_text |-> translated_text]

\* the new segment appended after a successful translation of segment
TranslatedSegment(segment, translated_text) ==
    [start |-> segment.start, end |-> segment.end, text |-> segment.text,
     translated_text |-> translated_text]

----------------------------------------------------------------------------
(* app/services/transcriber.py : Transcriber *)

\* (mutant) the language is validated but the file is not looked for
TranscribeAudioNoFileCheck(audio_path, language, provider) ==
    IF ~Supported(language)
    THEN Done(Raised("ValueError", "LanguageUnsupported",
                     [value |-> language, listed |-> SUPPORTED_LANGUAGES]))
    ELSE LLMTranscribeAudio(audio_path, language, provider)

\* Transcriber.transcribe_audio, up to the backend call
TranscribeAudio(audio_path, language, provider) ==
    IF ~FileExists(audio_path)
    THEN Done(Raised("FileNotFoundError", "AudioNotFound", audio_path))
    ELSE IF ~Supported(language)
    THEN Done(Raised("ValueError", "LanguageUnsupported",
                     [value |-> language, listed |-> SUPPORTED_LANGUAGES]))
    ELSE LLMTranscribeAudio(audio_path, language, provider)

\* Path.parent.mkdir(parents=True, exist_ok=True)
Mkdirs(f, path) ==
    [f EXCEPT !.dirs = @ \cup {SubSeq(path, 1, n) : n \in 1..(Len(path) - 1)}]

\* open(path, 'w') followed by the writes: the file holds content afterwards
WriteFile(f, path, content) ==
    [f EXCEPT !.files = [q \in (DOMAIN @) \cup {path} |->
                            IF q = path THEN content ELSE @[q]]]

\* a csv cell: csv.writer writes str(v) for a number and the text itself
\* (quoted where the dialect needs it) for a str
NumCell(v) == [cell |-> "number", str_of |-> v]
TextCell(v) == [cell |-> "text", chars |-> v]

\* the number of leading segments that have every key in keys: the rows
\* writerow gets to write before segment[key] raises KeyError
RECURSIVE RowsWritable(_, _)
RowsWritable(segments, keys) ==
    IF segments = <<>> THEN 0
    ELSE IF ~(keys \subseteq DOMAIN segments[1]) THEN 0
    ELSE 1 + RowsWritable(Tail(segments), keys)

TranscriptRow(segment) ==
    [start_time |-> NumCell(segment.start), end_time |-> NumCell(segment.end),
     text |-> TextCell(segment.text)]

\* (mutant) the output directory is created before the list is looked at
SaveTranscriptToCsvMkdirFirst(segments, output_path) ==
    IF segments = <<>>
    THEN [out |-> Raised("ValueError", "EmptySegments", "transcript"),
          fs |-> Mkdirs(fs, output_path)]
    ELSE LET n    == RowsWritable(segments, {"start", "end", "text"})
             rows == [k \in 1..n |-> TranscriptRow(segments[k])]
             file == [kind |-> "csv",
                      header |-> <<"start_time", "end_time", "text">>,
                      rows |-> rows]
             fs2  == WriteFile(Mkdirs(fs, output_path), output_path, file)
         IN  IF n < Len(segments)
             THEN [out |-> Raised("Exception", "SaveFailed", "transcript"), fs |-> fs2]
             ELSE [out |-> Returned(output_path), fs |-> fs2]

\* Transcriber.save_transcript_to_csv: the result and the file system after
SaveTranscriptToCsv(segments, output_path) ==
    IF segments = <<>>
    THEN [out |-> Raised("ValueError", "EmptySegments", "transcript"), fs |-> fs]
    ELSE LET n    == RowsWritable(segments, {"start", "end", "text"})
             rows == [k \in 1..n |-> TranscriptRow(segments[k])]
             file == [kind |-> "csv",
                      header |-> <<"start_time", "end_time", "text">>,
                      rows |-> rows]
             fs2  == WriteFile(Mkdirs(fs, output_path), output_path, file)
         IN  IF n < Len(segments)
             THEN [out |-> Raised("Exception", "SaveFailed", "transcript"), fs |-> fs2]
             ELSE [out |-> Returned(output_path), fs |-> fs2]

\* what a file opened with open(path, 'r') (newline=None) hands over for the
\* characters s: "\r\n" and a lone "\r" both arrive as "\n"
RECURSIVE UniversalNewlines(_)
UniversalNewlines(s) ==
    IF s = <<>> THEN s
    ELSE IF Len(s) >= 2 /\ s[1] = "\r" /\ s[2] = "\n"
    THEN <<"\n">> \o UniversalNewlines(SubSeq(s, 3, Len(s)))
    ELSE IF s[1] = "\r" THEN <<"\n">> \o UniversalNewlines(Tail(s))
    ELSE <<s[1]>> \o UniversalNewlines(Tail(s))

\* the str csv.DictReader gives for a cell: the text as the file object
\* hands it over; FloatOfCell is float() of the str(v) that was written
StrOfCell(c) == UniversalNewlines(c.chars)

FloatOfCell(c) == c.str_of

\* the columns of the header row
Columns(file) == {file.header[k] : k \in 1..Len(file.header)}

\* (mutant) the file is looked for inside the try, so that a missing file is
\* wrapped like any other failure of the load
LoadTranscriptFromCsvWrapsNotFound(csv_path) ==
    IF ~FileExists(csv_path)
    THEN Raised("Exception", "LoadFailed", "transcript")
    ELSE LET file == fs.files[csv_path]
         IN  IF file.rows # <<>> /\ "text" \notin Columns(file)
             THEN Raised("Exception", "LoadFailed", "transcript")
             ELSE Returned([k \in 1..Len(file.rows) |->
                              [start |-> FloatOfCell(file.rows[k].start_time),
                               end |-> FloatOfCell(file.rows[k].end_time),
                               text |-> StrOfCell(file.rows[k].text)]])

\* Transcriber.load_transcript_from_csv
LoadTranscriptFromCsv(csv_path) ==
    IF ~FileExists(csv_path)
    THEN Raised("FileNotFoundError", "CsvNotFound", csv_path)
    ELSE LET file == fs.files[csv_path]
         IN  IF file.rows # <<>> /\ "text" \notin Columns(file)
             THEN Raised("Exception", "LoadFailed", "transcript")
             ELSE Returned([k \in 1..Len(file.rows) |->
                              [start |-> FloatOfCell(file.rows[k].start_time),
                               end |-> FloatOfCell(file.rows[k].end_time),
                               text |-> StrOfCell(file.rows[k].text)]])

----------------------------------------------------------------------------
(* app/services/translator.py : Translator.save_translated_segments_to_csv *)

TranslationRow(segment) ==
    [start_time |-> NumCell(segment.start), end_time |-> NumCell(segment.end),
     original_text |-> TextCell(segment.text),
     translated_text |-> TextCell(segment.translated_text)]

SaveTranslatedSegmentsToCsv(translated_segments, output_path) ==
    IF translated_segments = <<>>
    THEN [out |-> Raised("ValueError", "EmptySegments", "translation"), fs |-> fs]
    ELSE LET n    == RowsWritable(translated_segments,
                                  {"start", "end", "text", "translated_text"})
             rows == [k \in 1..n |-> TranslationRow(translated_segments[k])]
             file == [kind |-> "csv",
                      header |-> <<"start_time", "end_time", "original_text",
                                   "translated_text">>,
                      rows |-> rows]
             fs2  == WriteFile(Mkdirs(fs, output_path), output_path, file)
         IN  IF n < Len(translated_segments)
             THEN [out |-> Raised("Exception", "SaveFailed", "translation"), fs |-> fs2]
             ELSE [out |-> Returned(output_path), fs |-> fs2]

\* Translator.translate_from_csv, up to the first backend call: the
\* transcript is loaded, and what the load raises is raised on as it is
TranslateFromCsv(c) ==
    LET segments == LoadTranscriptFromCsv(c.csv_path)
    IN  IF segments.status = "error" THEN Done(segments)
        ELSE TranslateSegments([segments |-> segments.value,
                                source_language |-> c.source_language,
                                target_language |-> c.target_language,
                                context |-> c.context, provider |-> c.provider])

----------------------------------------------------------------------------
(* app/services/context_builder.py : ContextBuilder *)

ShortTextThreshold == 10

PromptPrefixLen == 2000

ShortContext ==
    [kind |-> "literal", text |-> "Short video content without specific context."]

\* f"Content in {source_language} language. Length: approximately {n} words."
FallbackContext(source_language, full_text) ==
    [kind |-> "fallback", language |-> source_language, words |-> WordCount(full_text)]

\* the summarization prompt of _generate_context_with_llm
ContextPrompt(source_language, full_text) ==
    [template |-> "context_summary", language |-> source_language,
     transcript |-> Prefix(full_text, PromptPrefixLen)]

\* " ".join(segment['text'] for segment in segments)
FullText(segments) == JoinSpace([k \in 1..Len(segments) |-> segments[k].text])

\* (mutant) the unknown-provider error is raised outside the try
GenerateContextWithLLMUncaught(full_text, source_language, provider) ==
    LET p      == IF Falsy(provider) THEN settings.DEFAULT_LLM_PROVIDER ELSE provider
        prompt == [template |-> "context_summary", language |-> source_language,
                   transcript |-> Prefix(full_text, PromptPrefixLen)]
        inner  ==
            IF p = "openai"
            THEN WithGw(TranslateWithOpenAI(prompt, source_language, "en", <<>>),
                        <<[method |-> "_translate_with_openai", provider |-> p]>>)
            ELSE WithGw(TranslateWithGemini(prompt, source_language, "en", <<>>),
                        <<[method |-> "_translate_with_gemini", provider |-> p]>>)
    IN  IF p \notin {"openai", "gemini"}
        THEN Done(Raised("ValueError", "UnknownProvider", p))
        ELSE IF inner.status = "error"
        THEN WithGw(Done(Returned([kind |-> "fallback", language |-> source_language,
                                   words |-> WordCount(full_text)])), inner.gw)
        ELSE inner

\* _generate_context_with_llm, up to the backend call: the private gateway
\* methods are called with target_language "en" and an empty context, and
\* whatever is raised inside the try becomes the fallback string
GenerateContextWithLLM(full_text, source_language, provider) ==
    LET p      == IF Falsy(provider) THEN settings.DEFAULT_LLM_PROVIDER ELSE provider
        prompt == ContextPrompt(source_language, full_text)
        inner  ==
            IF p = "openai"
            THEN WithGw(TranslateWithOpenAI(prompt, source_language, "en", <<>>),
                        <<[method |-> "_translate_with_openai", provider |-> p]>>)
            ELSE IF p = "gemini"
            THEN WithGw(TranslateWithGemini(prompt, source_language, "en", <<>>),
                        <<[method |-> "_translate_with_gemini", provider |-> p]>>)
            ELSE Done(Raised("ValueError", "UnknownProvider", p))
    IN  IF inner.status = "error"
        THEN WithGw(Done(Returned(FallbackContext(source_language, full_text))), inner.gw)
        ELSE inner

\* _generate_context_with_llm from the backend's answer on
GenerateContextResume(req, resp, full_text, source_language) ==
    LET r == TranslateResume(req, resp)
    IN  IF r.status = "error"
        THEN Returned(FallbackContext(source_language, full_text))
        ELSE Returned([kind |-> "llm", text |-> Strip(r.value)])

\* (mutant) the threshold is applied to the text as joined, not stripped
BuildContextNoStrip(segments, source_language, provider) ==
    IF segments = <<>>
    THEN Done(Raised("ValueError", "EmptySegments", "context"))
    ELSE IF Len(FullText(segments)) < ShortTextThreshold
    THEN Done(Returned(ShortContext))
    ELSE GenerateContextWithLLM(FullText(segments), source_language, provider)

\* ContextBuilder.build_context, up to the backend call
BuildContext(segments, source_language, provider) ==
    IF segments = <<>>
    THEN Done(Raised("ValueError", "EmptySegments", "context"))
    ELSE IF \E k \in 1..Len(segments) : "text" \notin DOMAIN segments[k]
    THEN Done(Raised("KeyError", "MissingKey", "text"))
    ELSE IF Len(Strip(FullText(segments))) < ShortTextThreshold
    THEN Done(Returned(ShortContext))
    ELSE GenerateContextWithLLM(FullText(segments), source_language, provider)

\* f"{x:.1f}": x rounded to the nearest tenth of a second, a tie going to
\* the even tenth; the result is the number of tenths (120 prints as 12.0)
FormatOneDecimal(x) ==
    LET q == x \div 1000
        r == x % 1000
    IN  IF r < 500 THEN q
        ELSE IF r > 500 THEN q + 1
        ELSE IF q % 2 = 0 THEN q ELSE q + 1

\* f"Video transcript in {source_language} language. Duration: {duration:.1f}
\* seconds. Approximate word count: {word_count} words."
SimpleContext(source_language, duration, word_count) ==
    [kind |-> "simple", language |-> source_language,
     duration |-> FormatOneDecimal(duration), words |-> word_count]

\* (mutant) the duration is that of the last segment alone
BuildSimpleContextLastSegment(segments, source_language) ==
    IF segments = <<>>
    THEN Returned([kind |-> "literal", text |-> "Empty transcript."])
    ELSE Returned([kind |-> "simple", language |-> source_language,
                   duration |-> FormatOneDecimal(segments[Len(segments)].end
                                                 - segments[Len(segments)].start),
                   words |-> WordCount(FullText(segments))])

\* ContextBuilder.build_simple_context
BuildSimpleContext(segments, source_language) ==
    IF segments = <<>>
    THEN Returned([kind |-> "literal", text |-> "Empty transcript."])
    ELSE IF \E k \in 1..Len(segments) : "text" \notin DOMAIN segments[k]
    THEN Raised("KeyError", "MissingKey", "text")
    ELSE IF "end" \notin DOMAIN segments[Len(segments)]
    THEN Raised("KeyError", "MissingKey", "end")
    ELSE IF "start" \notin DOMAIN segments[1]
    THEN Raised("KeyError", "MissingKey", "start")
    ELSE Returned(SimpleContext(source_language,
                                segments[Len(segments)].end - segments[1].start,
                                WordCount(FullText(segments))))

\* ContextBuilder.build_context_from_file, up to the backend call
BuildContextFromFile(csv_path, source_language, provider) ==
    LET segments == LoadTranscriptFromCsv(csv_path)
    IN  IF segments.status = "error" THEN Done(segments)
        ELSE BuildContext(segments.value, source_language, provider)

----------------------------------------------------------------------------
(* app/services/srt_generator.py : SRTGenerator *)

\* the decimal digits of n >= 0, as str(n) writes them
DigitChar(d) == <<"0", "1", "2", "3", "4", "5", "6", "7", "8", "9">>[d + 1]

RECURSIVE Digits(_)
Digits(n) ==
    IF n < 10 THEN <<DigitChar(n)>>
    ELSE Digits(n \div 10) \o <<DigitChar(n % 10)>>

\* f"{n:0{width}d}" for n >= 0: zeros on the left up to width, never cut
ZeroPad(n, width) ==
    LET d == Digits(n)
    IN  IF Len(d) >= width THEN d
        ELSE [i \in 1..(width - Len(d)) |-> "0"] \o d

\* SRTGenerator.format_timestamp: int(seconds // 3600), int((seconds % 3600)
\* // 60), int(seconds % 60) and int((seconds % 1) * 1000), where int() cuts
\* the fraction off
FormatTimestamp(seconds) ==
    LET hours        == seconds \div 36000000
        minutes      == (seconds % 36000000) \div 600000
        secs         == (seconds % 600000) \div 10000
        milliseconds == (seconds % 10000) \div 10
    IN  ZeroPad(hours, 2) \o <<":">> \o ZeroPad(minutes, 2) \o <<":">>
            \o ZeroPad(secs, 2) \o <<",">> \o ZeroPad(milliseconds, 3)

\* Subtitle.__lt__ of the srt library: by (start, end, index)
SubtitleBefore(a, b) ==
    \/ a.start < b.start
    \/ a.start = b.start /\ a.end < b.end
    \/ a.start = b.start /\ a.end = b.end /\ a.index < b.index

\* sorted(subtitles)
RECURSIVE SortedSubtitles(_)
SortedSubtitles(subs) ==
    IF subs = <<>> THEN <<>>
    ELSE LET k == CHOOSE k \in 1..Len(subs) :
                      \A j \in 1..Len(subs) : j = k \/ SubtitleBefore(subs[k], subs[j])
             rest == [j \in 1..(Len(subs) - 1) |-> IF j < k THEN subs[j] ELSE subs[j + 1]]
         IN  <<subs[k]>> \o SortedSubtitles(rest)

\* _should_skip_sub of the srt library: no content, a negative start, or a
\* start that is not before the end
ShouldSkip(sub) ==
    \/ Strip(sub.content) = <<>>
    \/ sub.start < 0
    \/ sub.start >= sub.end

\* content.strip("\n")
RECURSIVE StripNewlines(_)
StripNewlines(s) ==
    IF s = <<>> THEN s
    ELSE IF Head(s) = "\n" THEN StripNewlines(Tail(s))
    ELSE IF s[Len(s)] = "\n" THEN StripNewlines(SubSeq(s, 1, Len(s) - 1))
    ELSE s

\* re.sub(r"\n\n+", "\n", s)
RECURSIVE CollapseNewlines(_)
CollapseNewlines(s) ==
    IF Len(s) < 2 THEN s
    ELSE IF s[1] = "\n" /\ s[2] = "\n" THEN CollapseNewlines(Tail(s))
    ELSE <<s[1]>> \o CollapseNewlines(Tail(s))

\* make_legal_content of the srt library
LegalContent(s) == CollapseNewlines(StripNewlines(s))

\* sort_and_reindex of the srt library: the kept subtitles, in sorted order,
\* numbered from 1
RECURSIVE KeptSubtitles(_)
KeptSubtitles(sorted) ==
    IF sorted = <<>> THEN <<>>
    ELSE IF ShouldSkip(sorted[1]) THEN KeptSubtitles(Tail(sorted))
    ELSE <<sorted[1]>> \o KeptSubtitles(Tail(sorted))

\* timedelta_to_srt_timestamp of the srt library: "%02d:%02d:%02d,%03d" of
\* the hours, minutes, seconds and microseconds // 1000 of the timedelta
TimedeltaToSrtTimestamp(t) ==
    LET hrs   == t \div 36000000
        mins  == (t % 36000000) \div 600000
        secs  == (t % 600000) \div 10000
        msecs == (t % 10000) \div 10
    IN  ZeroPad(hrs, 2) \o <<":">> \o ZeroPad(mins, 2) \o <<":">>
            \o ZeroPad(secs, 2) \o <<",">> \o ZeroPad(msecs, 3)

\* srt.compose(subtitles): the blocks of the SRT text, in order; a block is
\* its index line, the two timestamps of its timing line, and its content
Compose(subtitles) ==
    LET kept == KeptSubtitles(SortedSubtitles(subtitles))
    IN  [k \in 1..Len(kept) |->
            [index |-> k,
             start |-> TimedeltaToSrtTimestamp(kept[k].start),
             end |-> TimedeltaToSrtTimestamp(kept[k].end),
             content |-> LegalContent(kept[k].content)]]

\* the first segment (0-based position) that fails the validation loop, and
\* the field its message names; <<>> when every segment passes
RECURSIVE FirstInvalid(_, _, _)
FirstInvalid(segments, text_field, i) ==
    IF i > Len(segments) THEN <<>>
    ELSE IF ~({"start", "end"} \subseteq DOMAIN segments[i])
    THEN <<[index |-> i - 1, field |-> "start_or_end"]>>
    ELSE IF text_field \notin DOMAIN segments[i]
    THEN <<[index |-> i - 1, field |-> text_field]>>
    ELSE FirstInvalid(segments, text_field, i + 1)

\* (mutant) malformed segments are left out and the rest is emitted
GenerateSrtSkippingMalformed(segments, use_translated) ==
    LET text_field == IF use_translated THEN "translated_text" ELSE "text"
        Whole(seg) == {"start", "end", text_field} \subseteq DOMAIN seg
        good       == SelectSeq(segments, Whole)
        subtitles  == [k \in 1..Len(good) |->
                          [index |-> k, start |-> good[k].start, end |-> good[k].end,
                           content |-> good[k][text_field]]]
    IN  IF segments = <<>> THEN Raised("ValueError", "EmptySegments", "srt")
        ELSE Returned([kind |-> "srt", blocks |-> Compose(subtitles)])

\* (mutant) the subtitles always carry the original text
GenerateSrtIgnoresTranslated(segments, use_translated) ==
    LET text_field == IF use_translated THEN "translated_text" ELSE "text"
        bad        == FirstInvalid(segments, text_field, 1)
        subtitles  == [k \in 1..Len(segments) |->
                          [index |-> k, start |-> segments[k].start,
                           end |-> segments[k].end,
                           content |-> segments[k].text]]
    IN  IF segments = <<>> THEN Raised("ValueError", "EmptySegments", "srt")
        ELSE IF bad # <<>> THEN Raised("ValueError", "MissingField", bad[1])
        ELSE Returned([kind |-> "srt", blocks |-> Compose(subtitles)])

\* SRTGenerator.generate_srt_from_segments
GenerateSrtFromSegments(segments, use_translated) ==
    LET text_field == IF use_translated THEN "translated_text" ELSE "text"
        bad        == FirstInvalid(segments, text_field, 1)
        subtitles  == [k \in 1..Len(segments) |->
                          [index |-> k, start |-> segments[k].start,
                           end |-> segments[k].end,
                           content |-> segments[k][text_field]]]
    IN  IF segments = <<>> THEN Raised("ValueError", "EmptySegments", "srt")
        ELSE IF bad # <<>> THEN Raised("ValueError", "MissingField", bad[1])
        ELSE Returned([kind |-> "srt", blocks |-> Compose(subtitles)])

\* (mutant) the output directory is created before the content is generated
SaveSrtMkdirFirst(segments, output_path, use_translated) ==
    LET srt_content == GenerateSrtFromSegments(segments, use_translated)
    IN  IF srt_content.status = "error"
        THEN [out |-> srt_content, fs |-> Mkdirs(fs, output_path)]
        ELSE [out |-> Returned(output_path),
              fs |-> WriteFile(Mkdirs(fs, output_path), output_path, srt_content.value)]

\* SRTGenerator.save_srt: the result and the file system after
SaveSrt(segments, output_path, use_translated) ==
    LET srt_content == GenerateSrtFromSegments(segments, use_translated)
    IN  IF srt_content.status = "error"
        THEN [out |-> srt_content, fs |-> fs]
        ELSE [out |-> Returned(output_path),
              fs |-> WriteFile(Mkdirs(fs, output_path), output_path, srt_content.value)]

\* f"{file_id}.{extension}" for the one file id of the model
FileName(file_id, extension) ==
    IF extension = "srt" THEN "vid.srt" ELSE "vid.csv"

\* Settings.get_storage_path(storage_type), below the base directory
StoragePath(storage_type) ==
    <<"storage", CASE storage_type = "upload" -> "uploads"
                   [] storage_type = "audio" -> "audio"
                   [] storage_type = "transcript" -> "transcripts"
                   [] storage_type = "output" -> "output">>

\* FileHandler.get_file_path
GetFilePath(file_id, storage_type, extension) ==
    Append(StoragePath(storage_type), FileName(file_id, extension))

\* the translated branch of generate_srt_from_csv: the rows of the
\* translation CSV as segments
LoadTranslatedRows(csv_path) ==
    IF ~FileExists(csv_path)
    THEN Raised("FileNotFoundError", "CsvNotFound", csv_path)
    ELSE LET file == fs.files[csv_path]
         IN  IF file.rows # <<>> /\ "translated_text" \notin Columns(file)
             THEN Raised("KeyError", "MissingKey", "translated_text")
             ELSE Returned([k \in 1..Len(file.rows) |->
                              [start |-> FloatOfCell(file.rows[k].start_time),
                               end |-> FloatOfCell(file.rows[k].end_time),
                               text |-> IF "original_text" \in Columns(file)
                                        THEN StrOfCell(file.rows[k].original_text)
                                        ELSE <<>>,
                               translated_text |-> StrOfCell(file.rows[k].translated_text)]])

\* SRTGenerator.generate_srt_from_csv: the result and the file system after
GenerateSrtFromCsv(csv_path, output_path, file_id, use_translated) ==
    LET segments == IF use_translated THEN LoadTranslatedRows(csv_path)
                    ELSE LoadTranscriptFromCsv(csv_path)
    IN  IF segments.status = "error" THEN [out |-> segments, fs |-> fs]
        ELSE IF output_path = None /\ file_id = None
        THEN [out |-> Raised("ValueError", "NoOutputDestination", "srt"), fs |-> fs]
        ELSE SaveSrt(segments.value,
                     IF output_path = None THEN GetFilePath(file_id, "output", "srt")
                     ELSE output_path,
                     use_translated)

DigitValue(c) == CHOOSE d \in 0..9 : DigitChar(d) = c

\* int(s) of a run of decimal digits
RECURSIVE IntOfDigits(_)
IntOfDigits(s) ==
    IF s = <<>> THEN 0
    ELSE 10 * IntOfDigits(SubSeq(s, 1, Len(s) - 1)) + DigitValue(s[Len(s)])

\* srt_timestamp_to_timedelta of the srt library, then total_seconds(): the
\* hours, minutes, seconds and milliseconds written in HH:MM:SS,mmm
SrtTimestampToSeconds(ts) ==
    LET c1 == CHOOSE i \in 1..Len(ts) : ts[i] = ":" /\ \A j \in 1..(i - 1) : ts[j] # ":"
        c2 == CHOOSE i \in (c1 + 1)..Len(ts) :
                  ts[i] = ":" /\ \A j \in (c1 + 1)..(i - 1) : ts[j] # ":"
        c3 == CHOOSE i \in 1..Len(ts) : ts[i] = ","
        hrs   == IntOfDigits(SubSeq(ts, 1, c1 - 1))
        mins  == IntOfDigits(SubSeq(ts, c1 + 1, c2 - 1))
        secs  == IntOfDigits(SubSeq(ts, c2 + 1, c3 - 1))
        msecs == IntOfDigits(SubSeq(ts, c3 + 1, Len(ts)))
    IN  hrs * 36000000 + mins * 600000 + secs * 10000 + msecs * 10

\* content.replace("\r\n", "\n") of srt.parse
RECURSIVE ReplaceCrLf(_)
ReplaceCrLf(s) ==
    IF s = <<>> THEN s
    ELSE IF Len(s) >= 2 /\ s[1] = "\r" /\ s[2] = "\n"
    THEN <<"\n">> \o ReplaceCrLf(SubSeq(s, 3, Len(s)))
    ELSE <<s[1]>> \o ReplaceCrLf(Tail(s))

\* SRTGenerator.parse_srt: srt.parse finds the blocks (a text that is no SRT
\* raises SRTParseError, which is wrapped), and each becomes a segment
ParseSrt(srt_content) ==
    IF srt_content.kind # "srt"
    THEN Raised("Exception", "ParseFailed", "srt")
    ELSE Returned([k \in 1..Len(srt_content.blocks) |->
                      [start |-> SrtTimestampToSeconds(srt_content.blocks[k].start),
                       end |-> SrtTimestampToSeconds(srt_content.blocks[k].end),
                       text |-> ReplaceCrLf(srt_content.blocks[k].content)]])

\* f.read() of a file opened with open(path, 'r'): the content of an SRT
\* file as the text layer hands it over
ReadSrtText(file) ==
    IF file.kind # "srt" THEN file
    ELSE [file EXCEPT !.blocks = [k \in 1..Len(@) |->
                                     [@[k] EXCEPT !.content = UniversalNewlines(@)]]]

\* SRTGenerator.load_srt
LoadSrt(srt_path) ==
    IF ~FileExists(srt_path)
    THEN Raised("FileNotFoundError", "SrtNotFound", srt_path)
    ELSE LET segments == ParseSrt(ReadSrtText(fs.files[srt_path]))
         IN  IF segments.status = "error"
             THEN Raised("Exception", "LoadFailed", "srt")
             ELSE segments

----------------------------------------------------------------------------
(* app/services/transcriber.py : Transcriber.transcribe_and_save *)

\* (mutant) the tuple is returned without the CSV being saved
TranscribeAndSaveResumeSkipsSave(c, segments) ==
    IF segments.status = "error" THEN [out |-> segments, fs |-> fs]
    ELSE IF c.output_csv_path = None /\ c.file_id = None
    THEN [out |-> Raised("ValueError", "NoOutputDestination", "csv"), fs |-> fs]
    ELSE [out |-> Returned([segments |-> segments.value,
                            csv_path |-> IF c.output_csv_path = None
                                         THEN GetFilePath(c.file_id, "transcript", "csv")
                                         ELSE c.output_csv_path]),
          fs |-> fs]

\* transcribe_and_save from the return of transcribe_audio on, segments
\* being what it returned or raised: the output path is settled, the CSV is
\* saved, and the tuple (segments, csv_path) is returned; the result and the
\* file system after
TranscribeAndSaveResume(c, segments) ==
    IF segments.status = "error" THEN [out |-> segments, fs |-> fs]
    ELSE IF c.output_csv_path = None /\ c.file_id = None
    THEN [out |-> Raised("ValueError", "NoOutputDestination", "csv"), fs |-> fs]
    ELSE LET output_csv_path ==
                 IF c.output_csv_path = None
                 THEN GetFilePath(c.file_id, "transcript", "csv")
                 ELSE c.output_csv_path
             saved == SaveTranscriptToCsv(segments.value, output_csv_path)
         IN  IF saved.out.status = "error" THEN saved
             ELSE [out |-> Returned([segments |-> segments.value,
                                     csv_path |-> saved.out.value]),
                   fs |-> saved.fs]

\* transcribe_and_save, from its entry up to the backend call: it awaits
\* transcribe_audio first
TranscribeAndSave(c) ==
    LET o == TranscribeAudio(c.audio_path, c.language, c.provider)
    IN  IF o.status = "blocked" THEN [o |-> o, fs |-> fs]
        ELSE LET r == TranscribeAndSaveResume(c, o.out)
             IN  [o |-> [o EXCEPT !.out = r.out, !.status = r.out.status], fs |-> r.fs]

----------------------------------------------------------------------------
(* The state machine *)

AudioFile == <<"storage", "audio", "a.wav">>

AudioPaths == {AudioFile, <<"storage", "audio", "missing.wav">>}

CsvPaths == {<<"storage", "transcripts", "t.csv">>, <<"out", "t.csv">>}

\* time values for format_timestamp: hours, minutes and seconds at and
\* between their limits, with fractions on, just above and just below a whole
\* millisecond
TimeArgs ==
    {h * 36000000 + m * 600000 + s * 10000 + f :
        h \in {0, 1, 10}, m \in {0, 1, 59}, s \in {0, 5, 59},
        f \in {0, 16, 1230, 5000, 9996}}

\* the language and provider arguments of the operations that start from a
\* transcript file
FileLanguageArgs == {"es", "xyz"}

FileProviderArgs == {None, "gemini"}

SrtPaths == {<<"storage", "output", "vid.srt">>, <<"out", "s.srt">>}

\* the output_path and file_id arguments of generate_srt_from_csv
OutputArgs ==
    {[output_path |-> None, file_id |-> None],
     [output_path |-> None, file_id |-> "vid"],
     [output_path |-> <<"out", "s.srt">>, file_id |-> None]}

\* texts handed to parse_srt that no generation produced: the empty string
\* and a text that is not SRT
SrtTexts == {[kind |-> "srt", blocks |-> <<>>], [kind |-> "text"]}

\* translated_text
TranslatedPool ==
    {TranslatedSegment(SegA, <<"h","o","l","a">>),
     TranslatedSegment(SegB, <<"a","d","i","o","s">>)}

\* the one segment the transcriber makes of a response without segments
SegZ == [start |-> 0, end |-> 0, text |-> <<"H","i"," ","y","o","u">>]

\* a segment without its 'end'
SegNoEnd == [start |-> 60000, text |-> TextHello]

\* a translated segment whose texts hold a carriage return
SegR == [start |-> 60000, end |-> 90000, text |-> <<"a", "\r", "b">>,
         translated_text |-> <<"c", "\r", "d">>]

AnySegLists ==
    UNION {[1..n -> SegPool \cup TranslatedPool \cup {SegZ, SegNoEnd, SegR}] :
              n \in 0..MaxSegs}

\* what the transcription backends may answer
BackendSegments ==
    <<[start |-> 0, end |-> 25000, text |-> <<" ","H","i">>],
      [start |-> 25000, end |-> 50000, text |-> <<" ","y","o","u"," ">>]>>

OpenAITranscriptions ==
    {[ok |-> FALSE, has_segments |-> FALSE, segments |-> <<>>, text |-> <<>>],
     [ok |-> TRUE, has_segments |-> FALSE, segments |-> <<>>, text |-> <<"H","i"," ","y","o","u">>],
     [ok |-> TRUE, has_segments |-> TRUE, segments |-> <<>>, text |-> <<"H","i"," ","y","o","u">>],
     [ok |-> TRUE, has_segments |-> TRUE, segments |-> BackendSegments,
      text |-> <<"H","i"," ","y","o","u">>]}

\* a JSON array the model may as well answer with: a record without its
\* end, and one that ends before it starts
LooseRecords ==
    <<[start |-> 0, text |-> <<"H","i">>],
      [start |-> 50000, end |-> 25000, text |-> <<"y","o","u">>]>>

\* response.text of Gemini is free-form model output: it may be no JSON at
\* all (is_json false), the array [], an array of segment records, or an
\* array of other records
GeminiTranscriptions ==
    {[ok |-> FALSE, is_json |-> FALSE, json |-> <<>>, text |-> <<>>],
     [ok |-> TRUE, is_json |-> FALSE, json |-> <<>>, text |-> <<"H","i"," ","y","o","u">>],
     [ok |-> TRUE, is_json |-> TRUE, json |-> <<>>, text |-> <<"[","]">>],
     [ok |-> TRUE, is_json |-> TRUE, json |-> StrippedSegments(BackendSegments),
      text |-> <<"[","{",".",".","}","]">>],
     [ok |-> TRUE, is_json |-> TRUE, json |-> LooseRecords,
      text |-> <<"[","{",".","}","]">>]}

TranscriptionResponses(req) ==
    IF req.provider = "openai" THEN OpenAITranscriptions ELSE GeminiTranscriptions

\* a subtitle file written by an earlier run
OldSrtPath == <<"out", "s.srt">>

OldSrt ==
    [kind |-> "srt",
     blocks |-> <<[index |-> 1,
                   start |-> <<"0","0",":","0","0",":","0","1",",","0","0","0">>,
                   end |-> <<"0","0",":","0","0",":","0","2",",","5","0","0">>,
                   content |-> <<"o","l","d">>]>>]

\* the storage tree before the invocation: the extracted audio is there,
\* and so is the subtitle file of an earlier run
InitialFs ==
    [dirs |-> {<<"storage">>, <<"storage", "audio">>, <<"out">>},
     files |-> [q \in {AudioFile, OldSrtPath} |->
                   IF q = AudioFile THEN [kind |-> "wav"] ELSE OldSrt]]

Init ==
    /\ settings \in SettingsPool
    /\ openai_client = LLMClientInit(settings).openai_client
    /\ gemini_client = LLMClientInit(settings).gemini_client
    /\ fs = InitialFs
    /\ pc = "idle"
    /\ call = [op |-> "none"]
    /\ locals = NoLocals
    /\ net = NoRequest
    /\ netLog = <<>>
    /\ gwLog = <<>>
    /\ result = NoResult

\* the invocation goes on from outcome o with local variables loc
Proceed(o, loc) ==
    /\ gwLog' = gwLog \o o.gw
    /\ locals' = loc
    /\ net' = o.req
    /\ result' = o.out
    /\ pc' = IF o.status = "blocked" THEN "wait" ELSE "done"

\* the backend call in flight comes back with resp
Answered(resp) == netLog' = Append(netLog, [req |-> net, resp |-> resp])

Config == <<settings, openai_client, gemini_client>>

\* LLMClient.translate_with_context is entered
Call_llm_translate_with_context ==
    /\ pc = "idle"
    /\ \E source_language \in LanguageArgs, target_language \in LanguageArgs,
          provider \in ProviderArgs :
          /\ call' = [op |-> "llm_translate_with_context", text |-> TextHello,
                      source_language |-> source_language,
                      target_language |-> target_language,
                      context |-> ContextArg, provider |-> provider]
          /\ Proceed(TranslateWithContext(TextHello, source_language, target_language,
                                          ContextArg, provider), NoLocals)
    /\ UNCHANGED <<Config, fs, netLog>>

\* Translator.translate_segment is entered
Call_translate_segment ==
    /\ pc = "idle"
    /\ \E source_language \in LanguageArgs, target_language \in LanguageArgs,
          provider \in ProviderArgs :
          /\ call' = [op |-> "translate_segment", text |-> TextHello,
                      source_language |-> source_language,
                      target_language |-> target_language,
                      context |-> ContextArg, provider |-> provider]
          /\ Proceed(TranslateSegment(TextHello, source_language, target_language,
                                      ContextArg, provider), NoLocals)
    /\ UNCHANGED <<Config, fs, netLog>>

\* the backend call of translate_with_context / translate_segment comes back
Respond_translate ==
    /\ pc = "wait"
    /\ call.op \in {"llm_translate_with_context", "translate_segment"}
    /\ \E resp \in ChatResponses :
          /\ Answered(resp)
          /\ Proceed(Done(TranslateResume(net, resp)), locals)
    /\ UNCHANGED <<Config, fs, call>>

\* Translator.translate_segments is entered
Call_translate_segments ==
    /\ pc = "idle"
    /\ \E segments \in SegLists \cup {HelloWorld}, source_language \in LanguageArgs,
          target_language \in LanguageArgs, provider \in ProviderArgs :
          LET c == [op |-> "translate_segments", segments |-> segments,
                    source_language |-> source_language,
                    target_language |-> target_language,
                    context |-> ContextArg, provider |-> provider]
          IN  /\ call' = c
              /\ Proceed(TranslateSegments(c), [NoLocals EXCEPT !.i = 1])
    /\ UNCHANGED <<Config, fs, netLog>>

\* Translator.translate_segments_batch is entered
Call_translate_segments_batch ==
    /\ pc = "idle"
    /\ \E segments \in SegLists, source_language \in LanguageArgs,
          target_language \in LanguageArgs, provider \in ProviderArgs,
          batch_size \in BatchSizes :
          LET c == [op |-> "translate_segments_batch", segments |-> segments,
                    source_language |-> source_language,
                    target_language |-> target_language,
                    context |-> ContextArg, batch_size |-> batch_size,
                    provider |-> provider]
          IN  /\ call' = c
              /\ Proceed(TranslateSegmentsBatch(c), [NoLocals EXCEPT !.i = 1])
    /\ UNCHANGED <<Config, fs, netLog>>

\* (mutant) the translation is written into the input segment itself
Respond_translate_segments_in_place ==
    /\ pc = "wait"
    /\ call.op \in {"translate_segments", "translate_segments_batch"}
    /\ \E resp \in ChatResponses \cup StubResponses(call.op, net) :
          LET r == TranslateResume(net, resp)
              translated_segments ==
                  Append(locals.translated_segments,
                         TranslatedSegment(call.segments[locals.i], r.value))
          IN  /\ Answered(resp)
              /\ IF r.status = "error"
                 THEN /\ Proceed(Done(r), locals)
                      /\ call' = call
                 ELSE /\ Proceed(TranslateSegmentsFrom(call, locals.i + 1, translated_segments),
                                 [locals EXCEPT !.i = @ + 1,
                                                !.translated_segments = translated_segments])
                      /\ call' = [call EXCEPT !.segments[locals.i] =
                                                  TranslatedSegment(@, r.value)]
    /\ UNCHANGED <<Config, fs>>

\* the translation call of segment locals.i returns or fails, in
\* translate_segments called directly or awaited by translate_segments_batch
Respond_translate_segments ==
    /\ pc = "wait"
    /\ call.op \in {"translate_segments", "translate_segments_batch"}
    /\ \E resp \in ChatResponses \cup StubResponses(call.op, net) :
          LET r == TranslateResume(net, resp)
              translated_segments ==
                  Append(locals.translated_segments,
                         TranslatedSegment(call.segments[locals.i], r.value))
          IN  /\ Answered(resp)
              /\ IF r.status = "error"
                 THEN Proceed(Done(r), locals)
                 ELSE Proceed(TranslateSegmentsFrom(call, locals.i + 1, translated_segments),
                              [locals EXCEPT !.i = @ + 1,
                                             !.translated_segments = translated_segments])
    /\ UNCHANGED <<Config, fs, call>>

\* LLMClient.transcribe_audio is entered
Call_llm_transcribe_audio ==
    /\ pc = "idle"
    /\ \E audio_file_path \in AudioPaths, language \in LanguageArgs,
          provider \in ProviderArgs :
          /\ call' = [op |-> "llm_transcribe_audio", audio_path |-> audio_file_path,
                      language |-> language, provider |-> provider]
          /\ Proceed(LLMTranscribeAudio(audio_file_path, language, provider), NoLocals)
    /\ UNCHANGED <<Config, fs, netLog>>

\* Transcriber.transcribe_audio is entered
Call_transcribe_audio ==
    /\ pc = "idle"
    /\ \E audio_path \in AudioPaths, language \in LanguageArgs,
          provider \in ProviderArgs :
          /\ call' = [op |-> "transcribe_audio", audio_path |-> audio_path,
                      language |-> language, provider |-> provider]
          /\ Proceed(TranscribeAudio(audio_path, language, provider), NoLocals)
    /\ UNCHANGED <<Config, fs, netLog>>

\* the transcription backend call comes back
Respond_transcribe ==
    /\ pc = "wait"
    /\ call.op \in {"llm_transcribe_audio", "transcribe_audio"}
    /\ \E resp \in TranscriptionResponses(net) :
          /\ Answered(resp)
          /\ Proceed(Done(TranscribeResume(net, resp)), locals)
    /\ UNCHANGED <<Config, fs, call>>

\* ContextBuilder.build_context is entered
Call_build_context ==
    /\ pc = "idle"
    /\ \E segments \in SegLists, source_language \in LanguageArgs,
          provider \in ProviderArgs :
          /\ call' = [op |-> "build_context", segments |-> segments,
                      source_language |-> source_language, provider |-> provider]
          /\ Proceed(BuildContext(segments, source_language, provider),
                     [NoLocals EXCEPT !.full_text = FullText(segments)])
    /\ UNCHANGED <<Config, fs, netLog>>

\* the summarization call of build_context comes back
Respond_build_context ==
    /\ pc = "wait"
    /\ call.op = "build_context"
    /\ \E resp \in ChatResponses :
          /\ Answered(resp)
          /\ Proceed(Done(GenerateContextResume(net, resp, locals.full_text,
                                                call.source_language)), locals)
    /\ UNCHANGED <<Config, fs, call>>

\* ContextBuilder.build_simple_context runs (it makes no blocking call)
Call_build_simple_context ==
    /\ pc = "idle"
    /\ \E segments \in SegLists, source_language \in LanguageArgs :
          /\ call' = [op |-> "build_simple_context", segments |-> segments,
                      source_language |-> source_language]
          /\ Proceed(Done(BuildSimpleContext(segments, source_language)), NoLocals)
    /\ UNCHANGED <<Config, fs, netLog>>

\* SRTGenerator.format_timestamp runs
Call_format_timestamp ==
    /\ pc = "idle"
    /\ \E seconds \in TimeArgs :
          /\ call' = [op |-> "format_timestamp", seconds |-> seconds]
          /\ Proceed(Done(Returned(FormatTimestamp(seconds))), NoLocals)
    /\ UNCHANGED <<Config, fs, netLog>>

\* SRTGenerator.generate_srt_from_segments runs (it makes no blocking call),
\* on a list of the caller's or on the list translate_segments has just
\* returned
Call_generate_srt_from_segments ==
    /\ pc = "idle" \/ (pc = "done" /\ call.op = "translate_segments"
                                   /\ result.status = "ok")
    /\ \E segments \in IF pc = "idle" THEN AnySegLists ELSE {result.value},
          use_translated \in BOOLEAN :
          /\ call' = [op |-> "generate_srt_from_segments", segments |-> segments,
                      use_translated |-> use_translated]
          /\ Proceed(Done(GenerateSrtFromSegments(segments, use_translated)), NoLocals)
    /\ UNCHANGED <<Config, fs, netLog>>

\* Transcriber.save_transcript_to_csv runs
Call_save_transcript_to_csv ==
    /\ pc = "idle"
    /\ \E segments \in AnySegLists, output_path \in CsvPaths :
          LET r == SaveTranscriptToCsv(segments, output_path)
          IN  /\ call' = [op |-> "save_transcript_to_csv", segments |-> segments,
                          output_path |-> output_path]
              /\ fs' = r.fs
              /\ Proceed(Done(r.out), NoLocals)
    /\ UNCHANGED <<Config, netLog>>

\* Translator.save_translated_segments_to_csv runs
Call_save_translated_segments_to_csv ==
    /\ pc = "idle"
    /\ \E segments \in AnySegLists, output_path \in CsvPaths :
          LET r == SaveTranslatedSegmentsToCsv(segments, output_path)
          IN  /\ call' = [op |-> "save_translated_segments_to_csv",
                          segments |-> segments, output_path |-> output_path]
              /\ fs' = r.fs
              /\ Proceed(Done(r.out), NoLocals)
    /\ UNCHANGED <<Config, netLog>>

\* the serializer invocation that went before is over (or there was none),
\* and the caller goes on to read back
After(ops) == pc = "idle" \/ (pc = "done" /\ call.op \in ops)

\* SRTGenerator.parse_srt runs, on what generate_srt_from_segments has just
\* returned or on a text of the caller's
Call_parse_srt ==
    /\ After({"generate_srt_from_segments"})
    /\ \E srt_content \in IF pc = "done" /\ result.status = "ok"
                          THEN {result.value} ELSE SrtTexts :
          /\ call' = [op |-> "parse_srt", srt_content |-> srt_content]
          /\ Proceed(Done(ParseSrt(srt_content)), NoLocals)
    /\ UNCHANGED <<Config, fs, netLog>>

\* SRTGenerator.save_srt runs
Call_save_srt ==
    /\ pc = "idle"
    /\ \E segments \in AnySegLists, output_path \in SrtPaths, use_translated \in BOOLEAN :
          LET r == SaveSrt(segments, output_path, use_translated)
          IN  /\ call' = [op |-> "save_srt", segments |-> segments,
                          output_path |-> output_path, use_translated |-> use_translated]
              /\ fs' = r.fs
              /\ Proceed(Done(r.out), NoLocals)
    /\ UNCHANGED <<Config, netLog>>

\* SRTGenerator.load_srt runs, at the start or after a save_srt
Call_load_srt ==
    /\ After({"save_srt"})
    /\ \E srt_path \in SrtPaths :
          /\ call' = [op |-> "load_srt", srt_path |-> srt_path]
          /\ Proceed(Done(LoadSrt(srt_path)), NoLocals)
    /\ UNCHANGED <<Config, fs, netLog>>

\* Transcriber.load_transcript_from_csv runs, at the start or after a
\* save_transcript_to_csv
Call_load_transcript_from_csv ==
    /\ After({"save_transcript_to_csv"})
    /\ \E csv_path \in CsvPaths :
          /\ call' = [op |-> "load_transcript_from_csv", csv_path |-> csv_path]
          /\ Proceed(Done(LoadTranscriptFromCsv(csv_path)), NoLocals)
    /\ UNCHANGED <<Config, fs, netLog>>

\* SRTGenerator.generate_srt_from_csv runs, at the start or after one of the
\* CSV files was saved
Call_generate_srt_from_csv ==
    /\ After({"save_transcript_to_csv", "save_translated_segments_to_csv"})
    /\ \E csv_path \in CsvPaths, o \in OutputArgs, use_translated \in BOOLEAN :
          LET r == GenerateSrtFromCsv(csv_path, o.output_path, o.file_id, use_translated)
          IN  /\ call' = [op |-> "generate_srt_from_csv", csv_path |-> csv_path,
                          output_path |-> o.output_path, file_id |-> o.file_id,
                          use_translated |-> use_translated]
              /\ fs' = r.fs
              /\ Proceed(Done(r.out), NoLocals)
    /\ UNCHANGED <<Config, netLog>>

\* the output_csv_path and file_id arguments of transcribe_and_save
CsvOutputArgs ==
    {[output_csv_path |-> None, file_id |-> None],
     [output_csv_path |-> None, file_id |-> "vid"],
     [output_csv_path |-> <<"out", "t.csv">>, file_id |-> None]}

\* Transcriber.transcribe_and_save is entered
Call_transcribe_and_save ==
    /\ pc = "idle"
    /\ \E audio_path \in AudioPaths, language \in LanguageArgs,
          provider \in ProviderArgs, d \in CsvOutputArgs :
          LET c == [op |-> "transcribe_and_save", audio_path |-> audio_path,
                    output_csv_path |-> d.output_csv_path, file_id |-> d.file_id,
                    language |-> language, provider |-> provider]
              r == TranscribeAndSave(c)
          IN  /\ call' = c
              /\ fs' = r.fs
              /\ Proceed(r.o, NoLocals)
    /\ UNCHANGED <<Config, netLog>>

\* the transcription call of transcribe_and_save comes back, and the rest of
\* transcribe_and_save runs
Respond_transcribe_and_save ==
    /\ pc = "wait"
    /\ call.op = "transcribe_and_save"
    /\ \E resp \in TranscriptionResponses(net) :
          LET r == TranscribeAndSaveResume(call, TranscribeResume(net, resp))
          IN  /\ Answered(resp)
              /\ fs' = r.fs
              /\ Proceed(Done(r.out), locals)
    /\ UNCHANGED <<Config, call>>

\* the segments translate_from_csv and build_context_from_file have loaded
\* from the file at csv_path (none when the load raised)
Loaded(csv_path) ==
    LET segments == LoadTranscriptFromCsv(csv_path)
    IN  IF segments.status = "error" THEN <<>> ELSE segments.value

\* Translator.translate_from_csv is entered, at the start or after a
\* save_transcript_to_csv
Call_translate_from_csv ==
    /\ After({"save_transcript_to_csv"})
    /\ \E csv_path \in CsvPaths, target_language \in FileLanguageArgs,
          provider \in FileProviderArgs :
          LET c == [op |-> "translate_from_csv", csv_path |-> csv_path,
                    source_language |-> "en", target_language |-> target_language,
                    context |-> ContextArg, provider |-> provider]
          IN  /\ call' = c
              /\ Proceed(TranslateFromCsv(c),
                         [NoLocals EXCEPT !.i = 1, !.segments = Loaded(csv_path)])
    /\ UNCHANGED <<Config, fs, netLog>>

\* the translation call of segment locals.i of translate_from_csv returns
\* or fails
Respond_translate_from_csv ==
    /\ pc = "wait"
    /\ call.op = "translate_from_csv"
    /\ \E resp \in ChatResponses :
          LET c == [segments |-> locals.segments,
                    source_language |-> call.source_language,
                    target_language |-> call.target_language,
                    context |-> call.context, provider |-> call.provider]
              r == TranslateResume(net, resp)
              translated_segments ==
                  Append(locals.translated_segments,
                         TranslatedSegment(locals.segments[locals.i], r.value))
          IN  /\ Answered(resp)
              /\ IF r.status = "error"
                 THEN Proceed(Done(r), locals)
                 ELSE Proceed(TranslateSegmentsFrom(c, locals.i + 1, translated_segments),
                              [locals EXCEPT !.i = @ + 1,
                                             !.translated_segments = translated_segments])
    /\ UNCHANGED <<Config, fs, call>>

\* ContextBuilder.build_context_from_file is entered, at the start or after
\* a save_transcript_to_csv
Call_build_context_from_file ==
    /\ After({"save_transcript_to_csv"})
    /\ \E csv_path \in CsvPaths, source_language \in FileLanguageArgs,
          provider \in FileProviderArgs :
          /\ call' = [op |-> "build_context_from_file", csv_path |-> csv_path,
                      source_language |-> source_language, provider |-> provider]
          /\ Proceed(BuildContextFromFile(csv_path, source_language, provider),
                     [NoLocals EXCEPT !.segments = Loaded(csv_path),
                                      !.full_text = FullText(Loaded(csv_path))])
    /\ UNCHANGED <<Config, fs, netLog>>

\* the summarization call of build_context_from_file comes back
Respond_build_context_from_file ==
    /\ pc = "wait"
    /\ call.op = "build_context_from_file"
    /\ \E resp \in ChatResponses :
          /\ Answered(resp)
          /\ Proceed(Done(GenerateContextResume(net, resp, locals.full_text,
                                                call.source_language)), locals)
    /\ UNCHANGED <<Config, fs, call>>

Next ==
    \/ Call_llm_translate_with_context
    \/ Call_translate_segment
    \/ Respond_translate
    \/ Call_translate_segments
    \/ Call_translate_segments_batch
    \/ Respond_translate_segments
    \/ Call_llm_transcribe_audio
    \/ Call_transcribe_audio
    \/ Respond_transcribe
    \/ Call_build_context
    \/ Respond_build_context
    \/ Call_build_simple_context
    \/ Call_format_timestamp
    \/ Call_generate_srt_from_segments
    \/ Call_parse_srt
    \/ Call_save_srt
    \/ Call_load_srt
    \/ Call_save_transcript_to_csv
    \/ Call_load_transcript_from_csv
    \/ Call_generate_srt_from_csv
    \/ Call_save_translated_segments_to_csv
    \/ Call_translate_from_csv
    \/ Respond_translate_from_csv
    \/ Call_build_context_from_file
    \/ Respond_build_context_from_file
    \/ Call_transcribe_and_save
    \/ Respond_transcribe_and_save

Spec == Init /\ [][Next]_vars

----------------------------------------------------------------------------
(* Two concurrent invocations *)

(***************************************************************************)
(* The operations are coroutines: a caller may start a second              *)
(* translate_segments while the first is suspended in the await of a       *)
(* provider call.  In SpecPair two tasks share the process (settings, the  *)
(* two clients, the file system); pc, call, locals, net, netLog and result *)
(* hold one value per task, and gwLog lists the gateway methods entered by *)
(* either task in the order they were entered.                             *)
(***************************************************************************)
Tasks == {1, 2}

\* the lists and providers the two tasks are started with
PairLists == {<<SegA, SegB>>, <<SegC>>, HelloWorld}

PairProviders == {"openai", "gemini"}

InitPair ==
    /\ settings \in SettingsPool
    /\ openai_client = LLMClientInit(settings).openai_client
    /\ gemini_client = LLMClientInit(settings).gemini_client
    /\ fs = InitialFs
    /\ pc = [t \in Tasks |-> "idle"]
    /\ call = [t \in Tasks |-> [op |-> "none"]]
    /\ locals = [t \in Tasks |-> NoLocals]
    /\ net = [t \in Tasks |-> NoRequest]
    /\ netLog = [t \in Tasks |-> <<>>]
    /\ gwLog = <<>>
    /\ result = [t \in Tasks |-> NoResult]

\* task t goes on from outcome o with local variables loc
ProceedTask(t, o, loc) ==
    /\ gwLog' = gwLog \o [k \in 1..Len(o.gw) |-> [task |-> t, entry |-> o.gw[k]]]
    /\ locals' = [locals EXCEPT ![t] = loc]
    /\ net' = [net EXCEPT ![t] = o.req]
    /\ result' = [result EXCEPT ![t] = o.out]
    /\ pc' = [pc EXCEPT ![t] = IF o.status = "blocked" THEN "wait" ELSE "done"]

\* task t enters Translator.translate_segments
Call_translate_segments_task(t) ==
    /\ pc[t] = "idle"
    /\ \E segments \in PairLists, provider \in PairProviders :
          LET c == [op |-> "translate_segments", segments |-> segments,
                    source_language |-> "en", target_language |-> "es",
                    context |-> ContextArg, provider |-> provider]
          IN  /\ call' = [call EXCEPT ![t] = c]
              /\ ProceedTask(t, TranslateSegments(c), [NoLocals EXCEPT !.i = 1])
    /\ UNCHANGED <<Config, fs, netLog>>

\* (mutant) the list of translations is one list that the invocations share
Respond_translate_segments_task_shared_list(t) ==
    /\ pc[t] = "wait"
    /\ \E resp \in ChatResponses :
          LET r == TranslateResume(net[t], resp)
              translated_segments ==
                  Append(locals[1].translated_segments,
                         TranslatedSegment(call[t].segments[locals[t].i], r.value))
          IN  /\ netLog' = [netLog EXCEPT ![t] = Append(@, [req |-> net[t], resp |-> resp])]
              /\ IF r.status = "error"
                 THEN ProceedTask(t, Done(r), locals[t])
                 ELSE ProceedTask(t, TranslateSegmentsFrom(call[t], locals[t].i + 1,
                                                           translated_segments),
                                  [locals[t] EXCEPT !.i = @ + 1,
                                                    !.translated_segments = translated_segments])
    /\ UNCHANGED <<Config, fs, call>>

\* the translation call of segment locals[t].i of task t returns or fails
Respond_translate_segments_task(t) ==
    /\ pc[t] = "wait"
    /\ \E resp \in ChatResponses :
          LET r == TranslateResume(net[t], resp)
              translated_segments ==
                  Append(locals[t].translated_segments,
                         TranslatedSegment(call[t].segments[locals[t].i], r.value))
          IN  /\ netLog' = [netLog EXCEPT ![t] = Append(@, [req |-> net[t], resp |-> resp])]
              /\ IF r.status = "error"
                 THEN ProceedTask(t, Done(r), locals[t])
                 ELSE ProceedTask(t, TranslateSegmentsFrom(call[t], locals[t].i + 1,
                                                           translated_segments),
                                  [locals[t] EXCEPT !.i = @ + 1,
                                                    !.translated_segments = translated_segments])
    /\ UNCHANGED <<Config, fs, call>>

NextPair ==
    \E t \in Tasks :
        \/ Call_translate_segments_task(t)
        \/ Respond_translate_segments_task(t)

SpecPair == InitPair /\ [][NextPair]_vars

----------------------------------------------------------------------------
(* Properties *)

\* no backend (network) request was issued by the invocation
NoBackendCall == net.kind = "none" /\ netLog = <<>>

\* no Provider Gateway method was entered and no backend request was issued
NoProviderCall == NoBackendCall /\ gwLog = <<>>

InAllowList(lang) == lang \in {SUPPORTED_LANGUAGES[k] : k \in 1..Len(SUPPORTED_LANGUAGES)}

\* C1: translate_segments on a non-empty list of N segments, every provider
\* call of which succeeds, returns exactly N segments; output i copies start,
\* end and text of input i and carries as translated_text the gateway's
\* result of the i-th call, which was made for the text of input i.
C1_TranslateSegmentsPairsInOrder ==
    (pc = "done" /\ call.op = "translate_segments" /\ call.segments # <<>>
        /\ Len(netLog) = Len(call.segments)
        /\ \A i \in 1..Len(netLog) : netLog[i].resp.ok)
    => /\ result.status = "ok"
       /\ Len(result.value) = Len(call.segments)
       /\ \A i \in 1..Len(call.segments) :
             /\ DOMAIN result.value[i] = {"start", "end", "text", "translated_text"}
             /\ result.value[i].start = call.segments[i].start
             /\ result.value[i].end = call.segments[i].end
             /\ result.value[i].text = call.segments[i].text
             /\ netLog[i].req.prompt.text = call.segments[i].text
             /\ result.value[i].translated_text = Strip(netLog[i].resp.content)

\* C1 witness: two segments with different texts were translated, and the
\* provider answered them differently
C1_Witness ==
    /\ pc = "done" /\ call.op = "translate_segments" /\ result.status = "ok"
    /\ Len(result.value) = 2
    /\ call.segments[1].text # call.segments[2].text
    /\ result.value[1].translated_text # result.value[2].translated_text

\* C2: translate_segment, and translate_segments on a non-empty list, called
\* with a source or a target language outside the allow-list raises a
\* ValueError that names the side that is unsupported (the source when it is,
\* else the target) and lists the allowed set, and neither a gateway method
\* nor a backend is called.
C2_UnsupportedLanguageRejected ==
    (/\ \/ call.op = "translate_segment"
        \/ call.op = "translate_segments" /\ call.segments # <<>>
     /\ ~(InAllowList(call.source_language) /\ InAllowList(call.target_language)))
    => /\ pc = "done"
       /\ result.status = "error"
       /\ result.type = "ValueError"
       /\ IF ~InAllowList(call.source_language)
          THEN /\ result.tag = "SourceLanguageUnsupported"
               /\ result.info.value = call.source_language
          ELSE /\ result.tag = "TargetLanguageUnsupported"
               /\ result.info.value = call.target_language
       /\ result.info.listed = SUPPORTED_LANGUAGES
       /\ NoProviderCall

\* C2 witness: the source is allowed, the target is not, and the call failed
C2_Witness ==
    /\ pc = "done" /\ call.op = "translate_segments" /\ call.segments # <<>>
    /\ InAllowList(call.source_language) /\ ~InAllowList(call.target_language)
    /\ result.status = "error"

\* C3: transcribe_audio raises FileNotFoundError when the audio file does not
\* exist, and ValueError listing the allowed languages when the file exists
\* and the language is outside the allow-list; in both cases the gateway's
\* transcribe_audio is never entered, and it is entered exactly when both
\* checks pass.
C3_TranscribeValidatesFirst ==
    call.op = "transcribe_audio"
    => LET exists == call.audio_path \in DOMAIN fs.files
           allowed == InAllowList(call.language)
       IN  /\ ~exists => /\ pc = "done"
                         /\ result.status = "error"
                         /\ result.type = "FileNotFoundError"
                         /\ result.info = call.audio_path
                         /\ NoProviderCall
           /\ (exists /\ ~allowed) => /\ pc = "done"
                                      /\ result.status = "error"
                                      /\ result.type = "ValueError"
                                      /\ result.tag = "LanguageUnsupported"
                                      /\ result.info.value = call.language
                                      /\ result.info.listed = SUPPORTED_LANGUAGES
                                      /\ NoProviderCall
           /\ (exists /\ allowed) <=> (gwLog # <<>>)
           /\ gwLog # <<>> => gwLog[1].method = "transcribe_audio"

\* C3 witness: the file is missing, the language is allowed, and the call
\* has failed
C3_Witness ==
    /\ pc = "done" /\ call.op = "transcribe_audio"
    /\ call.audio_path \notin DOMAIN fs.files
    /\ InAllowList(call.language)
    /\ result.status = "error"

GatewayOps == {"llm_translate_with_context", "llm_transcribe_audio"}

KnownProviders == {"openai", "gemini"}

\* the credential configured for a known provider
ApiKeyOf(p) == IF p = "openai" THEN settings.OPENAI_API_KEY ELSE settings.GEMINI_API_KEY

\* C4: in the gateway's transcribe_audio and translate_with_context an omitted
\* provider resolves to the configured default, and a provider argument that
\* is given and is not 'openai' or 'gemini' fails with 'Unknown provider'
\* before any backend request, whatever credentials are configured.
C4_UnknownProviderRejected ==
    call.op \in GatewayOps
    => /\ call.provider = None
          => /\ pc = "wait" => net.provider = settings.DEFAULT_LLM_PROVIDER
             /\ (pc = "done" /\ result.status = "error"
                    /\ result.tag \in {"UnknownProvider", "NotConfigured"})
                => result.info = settings.DEFAULT_LLM_PROVIDER
       /\ call.provider \notin (KnownProviders \cup {None})
          => /\ pc = "done"
             /\ result = Raised("ValueError", "UnknownProvider", call.provider)
             /\ NoBackendCall

\* C5: a gateway operation fails with 'not configured' exactly when the
\* provider the call resolves to is a known one whose credential is not set;
\* the error is then a plain ValueError raised before any backend request.
\* A missing credential of the other provider fails nothing, and
\* constructing the gateway raises nothing.
C5_NotConfiguredIffSelectedKeyMissing ==
    /\ pc = "idle" => result = NoResult
    /\ call.op \in GatewayOps
       => LET selected == IF call.provider \in {None, ""}
                          THEN settings.DEFAULT_LLM_PROVIDER ELSE call.provider
              missing  == selected \in KnownProviders /\ ApiKeyOf(selected) = ""
          IN  /\ missing => /\ pc = "done"
                            /\ result = Raised("ValueError", "NotConfigured", selected)
                            /\ NoBackendCall
              /\ ~missing => ~(result.status = "error" /\ result.tag = "NotConfigured")

\* C5 witness: Gemini is selected and configured, OpenAI is not configured,
\* and the backend call went out and came back
C5_Witness ==
    /\ pc = "done" /\ call.op = "llm_translate_with_context"
    /\ call.provider = "gemini"
    /\ settings.OPENAI_API_KEY = "" /\ settings.GEMINI_API_KEY # ""
    /\ result.status = "ok"

TranscribeOps == {"llm_transcribe_audio", "transcribe_audio"}

\* the backend answered, and its answer holds no segmentation to use
NoUsableSegmentation(entry) ==
    /\ entry.resp.ok
    /\ IF entry.req.provider = "openai"
       THEN ~entry.resp.has_segments \/ entry.resp.segments = <<>>
       ELSE ~entry.resp.is_json \/ entry.resp.json = <<>>

\* C6: for either provider, when the transcription backend's answer holds no
\* usable segmentation the transcribe operation returns one segment with
\* start 0 and end 0 that carries the whole response text.
C6_NoSegmentationFallback ==
    (pc = "done" /\ call.op \in TranscribeOps /\ netLog # <<>>
        /\ NoUsableSegmentation(netLog[1]))
    => result = Returned(<<[start |-> 0, end |-> 0, text |-> netLog[1].resp.text]>>)

\* the threshold test of build_context lets the joined text through
ReachesThreshold(segments) == Len(Strip(FullText(segments))) >= ShortTextThreshold

C8_BuildContextValidatesLanguage ==
    (call.op = "build_context" /\ ~InAllowList(call.source_language))
    => /\ pc = "done"
       /\ result.status = "error"
       /\ result.type = "ValueError"
       /\ NoProviderCall

\* _generate_context_with_llm was entered: a gateway method was called, or
\* the fallback string came back
ProviderPathTaken ==
    \/ pc = "wait"
    \/ gwLog # <<>>
    \/ netLog # <<>>
    \/ pc = "done" /\ result.status = "ok" /\ result.value.kind = "fallback"

\* C9 as stated: with the length of the joined text as it is (not stripped)
\* below 10 the fixed literal is returned without a provider call, and with
\* length 10 or more a provider call is attempted.
C9_ThresholdOnJoinedLength ==
    (call.op = "build_context" /\ call.segments # <<>>)
    => IF Len(FullText(call.segments)) < ShortTextThreshold
       THEN pc = "done" /\ result = Returned(ShortContext) /\ NoProviderCall
       ELSE ProviderPathTaken

\* C9 amended: the length that counts is that of the joined text with its
\* leading and trailing whitespace stripped.  Below 10 the fixed literal is
\* returned and no provider call is made; from 10 on the provider path is
\* taken, and a gateway method is called exactly when the provider resolves
\* to 'openai' or 'gemini'.
C9_ThresholdOnStrippedLength ==
    (call.op = "build_context" /\ call.segments # <<>>)
    => IF Len(Strip(JoinSpace([k \in 1..Len(call.segments) |-> call.segments[k].text])))
          < ShortTextThreshold
       THEN pc = "done" /\ result = Returned(ShortContext) /\ NoProviderCall
       ELSE /\ ProviderPathTaken
            /\ result # Returned(ShortContext)
            /\ (gwLog # <<>>) <=>
                   (IF call.provider \in {None, ""} THEN settings.DEFAULT_LLM_PROVIDER
                    ELSE call.provider) \in KnownProviders

\* C9 witness: the joined text is 10 characters or longer, its stripped form
\* is shorter, and the fixed literal was returned
C9_Witness ==
    /\ pc = "done" /\ call.op = "build_context" /\ call.segments # <<>>
    /\ Len(FullText(call.segments)) >= ShortTextThreshold
    /\ Len(Strip(FullText(call.segments))) < ShortTextThreshold
    /\ result = Returned(ShortContext)

NeedsSegments ==
    {"translate_segments", "build_context", "generate_srt_from_segments",
     "save_transcript_to_csv", "save_translated_segments_to_csv"}

\* C10: translate_segments, build_context, generate_srt_from_segments,
\* save_transcript_to_csv and save_translated_segments_to_csv given an empty
\* list raise ValueError with no provider call made and with no file or
\* directory created.
C10_EmptyListRejected ==
    (call.op \in NeedsSegments /\ call.segments = <<>>)
    => /\ pc = "done"
       /\ result.status = "error"
       /\ result.type = "ValueError"
       /\ result.tag = "EmptySegments"
       /\ NoProviderCall
       /\ fs = InitialFs

\* C10 witness: save_transcript_to_csv was given the empty list, for a path
\* whose directory does not exist
C10_Witness ==
    /\ pc = "done" /\ call.op = "save_transcript_to_csv"
    /\ call.segments = <<>>
    /\ call.output_path = <<"out", "t.csv">>
    /\ result.status = "error"


\* C11: build_simple_context calls no provider and fails on no list of
\* segments: for the empty list it returns the literal "Empty transcript.",
\* and for a non-empty list the sentence that reports the source language,
\* the duration from the start of the first segment to the end of the last
\* one, and the word count of the joined text.  The result is a function of
\* the two arguments alone.
C11_SimpleContextIsLocal ==
    call.op = "build_simple_context"
    => /\ pc = "done"
       /\ NoProviderCall
       /\ fs = InitialFs
       /\ result.status = "ok"
       /\ IF call.segments = <<>>
          THEN result.value = [kind |-> "literal", text |-> "Empty transcript."]
          ELSE LET n    == Len(call.segments)
                   span == call.segments[n].end - call.segments[1].start
               IN  /\ result.value.kind = "simple"
                   /\ result.value.language = call.source_language
                   /\ result.value.duration = FormatOneDecimal(span)
                   /\ result.value.words =
                          WordCount(JoinSpace([k \in 1..n |-> call.segments[k].text]))

\* C11 witness: two different segments in time order, reported as 6.0
\* seconds and two words, with no provider configured at all
C11_Witness ==
    /\ pc = "done" /\ call.op = "build_simple_context"
    /\ call.segments = <<SegA, SegB>>
    /\ settings.OPENAI_API_KEY = "" /\ settings.GEMINI_API_KEY = ""
    /\ result.status = "ok"
    /\ result.value.duration = 60 /\ result.value.words = 2


\* round(x) of a non-negative number of tenths: to the nearest whole, a tie
\* going to the even one
RoundTenths(x) ==
    LET q == x \div 10
        r == x % 10
    IN  IF r < 5 THEN q
        ELSE IF r > 5 THEN q + 1
        ELSE IF q % 2 = 0 THEN q ELSE q + 1

\* C12: for every non-negative time format_timestamp returns HH:MM:SS,mmm
\* with hours = floor(seconds / 3600), minutes = floor((seconds mod 3600) /
\* 60), secs = floor(seconds mod 60) and millis = round((seconds mod 1) *
\* 1000), HH, MM and SS zero-padded to two digits and mmm of exactly three
\* digits.
C12_FormatTimestampRounds ==
    (pc = "done" /\ call.op = "format_timestamp")
    => LET t      == call.seconds
           hours  == t \div 36000000
           mins   == (t % 36000000) \div 600000
           secs   == (t % 600000) \div 10000
           millis == RoundTenths(t % 10000)
       IN  /\ result.status = "ok"
           /\ Len(result.value) = 12
           /\ result.value = ZeroPad(hours, 2) \o <<":">> \o ZeroPad(mins, 2) \o <<":">>
                                 \o ZeroPad(secs, 2) \o <<",">> \o ZeroPad(millis, 3)


\* every segment of the list has start, end and the text field selected
WellFormed(segments, use_translated) ==
    \A k \in 1..Len(segments) :
        {"start", "end", IF use_translated THEN "translated_text" ELSE "text"}
            \subseteq DOMAIN segments[k]

\* the text of a segment that goes into its block
WrittenText(segment, use_translated) ==
    IF use_translated THEN segment.translated_text ELSE segment.text

\* C13: for a non-empty list of N well-formed segments
\* generate_srt_from_segments emits exactly N blocks; block i has index i,
\* the timing line of the start and end of segment i, and as text the
\* translated_text of segment i when use_translated is true and its text
\* otherwise.
C13_OneBlockPerSegment ==
    (pc = "done" /\ call.op = "generate_srt_from_segments" /\ call.segments # <<>>
        /\ WellFormed(call.segments, call.use_translated))
    => /\ result.status = "ok"
       /\ Len(result.value.blocks) = Len(call.segments)
       /\ \A i \in 1..Len(call.segments) :
             /\ result.value.blocks[i].index = i
             /\ result.value.blocks[i].start
                    = TimedeltaToSrtTimestamp(call.segments[i].start)
             /\ result.value.blocks[i].end
                    = TimedeltaToSrtTimestamp(call.segments[i].end)
             /\ result.value.blocks[i].content
                    = WrittenText(call.segments[i], call.use_translated)


\* the first position (from 1) of a segment that lacks start, end or the
\* selected text field
FirstMalformed(segments, use_translated) ==
    CHOOSE i \in 1..Len(segments) :
        /\ ~WellFormed(<<segments[i]>>, use_translated)
        /\ \A j \in 1..(i - 1) : WellFormed(<<segments[j]>>, use_translated)

\* C14: generate_srt_from_segments on a non-empty list in which some
\* segment, at whatever position, lacks start or end or the selected text
\* field raises a ValueError that names the missing field of the first such
\* segment, and no SRT content comes out, not even for the well-formed
\* segments in front of it.
C14_MalformedSegmentRejected ==
    (call.op = "generate_srt_from_segments" /\ call.segments # <<>>
        /\ ~WellFormed(call.segments, call.use_translated))
    => /\ pc = "done"
       /\ result.status = "error"
       /\ result.type = "ValueError"
       /\ result.tag = "MissingField"
       /\ LET i == FirstMalformed(call.segments, call.use_translated)
          IN  /\ result.info.index = i - 1
              /\ result.info.field =
                     IF {"start", "end"} \subseteq DOMAIN call.segments[i]
                     THEN IF call.use_translated THEN "translated_text" ELSE "text"
                     ELSE "start_or_end"
       /\ fs = InitialFs

\* C14 witness: the second segment lacks its end, the first one is whole,
\* and the call failed
C14_Witness ==
    /\ pc = "done" /\ call.op = "generate_srt_from_segments"
    /\ call.segments = <<SegA, SegNoEnd>> /\ ~call.use_translated
    /\ result.status = "error"


\* the distance between two times
TimeDistance(a, b) == IF a < b THEN b - a ELSE a - b

\* the times of the list are distinct and no two segments overlap, and every
\* text to be written is non-empty
DistinctNonOverlapping(segments, use_translated) ==
    /\ segments # <<>>
    /\ WellFormed(segments, use_translated)
    /\ \A i \in 1..Len(segments) : WrittenText(segments[i], use_translated) # <<>>
    /\ \A i, j \in 1..Len(segments) :
          i # j => /\ segments[i].start # segments[j].start
                   /\ segments[i].end # segments[j].end
                   /\ \/ segments[i].end <= segments[j].start
                      \/ segments[j].end <= segments[i].start

\* read is the list written, up to one millisecond in the times
ReadBackOf(read, segments, use_translated) ==
    /\ read.status = "ok"
    /\ Len(read.value) = Len(segments)
    /\ \A i \in 1..Len(segments) :
          /\ TimeDistance(read.value[i].start, segments[i].start) <= 10
          /\ TimeDistance(read.value[i].end, segments[i].end) <= 10
          /\ read.value[i].text = WrittenText(segments[i], use_translated)

\* C15: for a segment list with distinct non-overlapping times and non-empty
\* text, parse_srt of what generate_srt_from_segments returned, and load_srt
\* of the file save_srt wrote, give a list of the same length and order
\* whose segment i has the start and end of input i within 1 ms and exactly
\* the text that was written.
C15_SrtRoundTrip ==
    [][(/\ pc = "done" /\ result.status = "ok"
        /\ \/ call.op = "generate_srt_from_segments" /\ call'.op = "parse_srt"
           \/ /\ call.op = "save_srt" /\ call'.op = "load_srt"
              /\ call'.srt_path = call.output_path
        /\ DistinctNonOverlapping(call.segments, call.use_translated))
       => ReadBackOf(result', call.segments, call.use_translated)]_vars


\* C16: load_transcript_from_csv of the file save_transcript_to_csv wrote for
\* a non-empty segment list returns a list of the same length and order
\* whose segment i has the start, end and text of input segment i.
C16_CsvRoundTrip ==
    [][(/\ pc = "done" /\ result.status = "ok"
        /\ call.op = "save_transcript_to_csv"
        /\ call'.op = "load_transcript_from_csv"
        /\ call'.csv_path = call.output_path)
       => /\ result'.status = "ok"
          /\ Len(result'.value) = Len(call.segments)
          /\ \A i \in 1..Len(call.segments) :
                /\ result'.value[i].start = call.segments[i].start
                /\ result'.value[i].end = call.segments[i].end
                /\ result'.value[i].text = call.segments[i].text]_vars


\* the rows of the translation CSV at path are those of segments: times,
\* untranslated text and translated text of segment i in row i
TranslationRowsOf(file, segments) ==
    /\ file.kind = "csv"
    /\ file.header = <<"start_time", "end_time", "original_text", "translated_text">>
    /\ Len(file.rows) = Len(segments)
    /\ \A i \in 1..Len(segments) :
          /\ file.rows[i].start_time = [cell |-> "number", str_of |-> segments[i].start]
          /\ file.rows[i].end_time = [cell |-> "number", str_of |-> segments[i].end]
          /\ file.rows[i].original_text = [cell |-> "text", chars |-> segments[i].text]
          /\ file.rows[i].translated_text
                 = [cell |-> "text", chars |-> segments[i].translated_text]

\* where generate_srt_from_csv writes for the arguments of invocation c
SrtDestination(c) ==
    IF c.output_path = None THEN <<"storage", "output", "vid.srt">> ELSE c.output_path

\* C17: save_translated_segments_to_csv writes for segment i a row with its
\* start and end, its untranslated text as original_text and its
\* translated_text; and generate_srt_from_csv(use_translated=True) on that
\* file writes the same SRT content as save_srt called with the translated
\* segments themselves.
C17_TranslationCsvKeepsAll ==
    [][/\ (pc' = "done" /\ call'.op = "save_translated_segments_to_csv"
              /\ result'.status = "ok")
          => TranslationRowsOf(fs'.files[call'.output_path], call'.segments)
       /\ (/\ pc = "done" /\ result.status = "ok"
           /\ call.op = "save_translated_segments_to_csv"
           /\ call'.op = "generate_srt_from_csv"
           /\ call'.csv_path = call.output_path
           /\ call'.use_translated
           /\ ~(call'.output_path = None /\ call'.file_id = None))
          => /\ result'.status = "ok"
             /\ fs'.files[SrtDestination(call')]
                    = SaveSrt(call.segments, SrtDestination(call'), TRUE)
                          .fs.files[SrtDestination(call')]]_vars


\* translate_segments and generate_srt_from_segments, where they succeed,
\* have emitted one output per input segment, in input order, with the
\* start and end of that segment
EmitsInInputOrder ==
    /\ (pc = "done" /\ call.op = "translate_segments" /\ result.status = "ok")
       => /\ Len(result.value) = Len(call.segments)
          /\ \A i \in 1..Len(call.segments) :
                /\ result.value[i].start = call.segments[i].start
                /\ result.value[i].end = call.segments[i].end
    /\ (pc = "done" /\ call.op = "generate_srt_from_segments" /\ result.status = "ok")
       => /\ Len(result.value.blocks) = Len(call.segments)
          /\ \A i \in 1..Len(call.segments) :
                /\ result.value.blocks[i].start
                       = TimedeltaToSrtTimestamp(call.segments[i].start)
                /\ result.value.blocks[i].end
                       = TimedeltaToSrtTimestamp(call.segments[i].end)

\* C18: no stage re-sorts or filters: for every segment list, in time order
\* or not, overlapping or not, translate_segments, save_transcript_to_csv
\* followed by load_transcript_from_csv, and generate_srt_from_segments each
\* emit the segments in input order with start and end unchanged.
C18_NoStageReorders ==
    [][/\ EmitsInInputOrder'
       /\ (/\ pc = "done" /\ result.status = "ok"
           /\ call.op = "save_transcript_to_csv"
           /\ call'.op = "load_transcript_from_csv"
           /\ call'.csv_path = call.output_path)
          => /\ result'.status = "ok"
             /\ Len(result'.value) = Len(call.segments)
             /\ \A i \in 1..Len(call.segments) :
                   /\ result'.value[i].start = call.segments[i].start
                   /\ result'.value[i].end = call.segments[i].end]_vars


\* C19: every list a transcribe operation returns, with either provider, is
\* a list of well-formed segments: each element has start, end and text and
\* no translated_text, its start is not negative and its end is not before
\* its start.
C19_TranscribedSegmentsWellFormed ==
    (pc = "done" /\ call.op \in TranscribeOps /\ result.status = "ok")
    => \A i \in 1..Len(result.value) :
          /\ DOMAIN result.value[i] = {"start", "end", "text"}
          /\ result.value[i].start >= 0
          /\ result.value[i].end >= result.value[i].start


\* translate_segments with the arguments of invocation c, run against the
\* provider answers resps one after the other: where it stands when they are
\* used up, the requests it made, the gateway methods it entered and its
\* result.  o is the outcome reached, i the segment in turn.
RECURSIVE ReplayFrom(_, _, _, _, _, _, _)
ReplayFrom(c, o, i, translated_segments, resps, reqs, gw) ==
    IF o.status # "blocked"
    THEN [pc |-> "done", net |-> NoRequest, result |-> o.out, reqs |-> reqs,
          gw |-> gw \o o.gw]
    ELSE IF resps = <<>>
    THEN [pc |-> "wait", net |-> o.req, result |-> NoResult, reqs |-> reqs,
          gw |-> gw \o o.gw]
    ELSE LET r    == TranslateResume(o.req, Head(resps))
             done == Append(translated_segments,
                            TranslatedSegment(c.segments[i], r.value))
         IN  IF r.status = "error"
             THEN [pc |-> "done", net |-> NoRequest, result |-> r,
                   reqs |-> Append(reqs, o.req), gw |-> gw \o o.gw]
             ELSE ReplayFrom(c, TranslateSegmentsFrom(c, i + 1, done), i + 1, done,
                             Tail(resps), Append(reqs, o.req), gw \o o.gw)

ReplayTranslateSegments(c, resps) ==
    ReplayFrom(c, TranslateSegments(c), 1, <<>>, resps, <<>>, <<>>)

\* C20: translate_segments_batch, whatever its batch_size, stands where
\* translate_segments stands with the same segments, languages, context and
\* provider after the same provider answers: it has made the same provider
\* calls in the same order and has returned the same list or raised the same
\* error.
C20_BatchIsTranslateSegments ==
    call.op = "translate_segments_batch"
    => LET same == [op |-> "translate_segments", segments |-> call.segments,
                    source_language |-> call.source_language,
                    target_language |-> call.target_language,
                    context |-> call.context, provider |-> call.provider]
           ref  == ReplayTranslateSegments(same, [k \in 1..Len(netLog) |-> netLog[k].resp])
       IN  /\ pc = ref.pc
           /\ net = ref.net
           /\ [k \in 1..Len(netLog) |-> netLog[k].req] = ref.reqs
           /\ gwLog = ref.gw
           /\ result = ref.result

\* C20 witness: a list of two was translated with batch_size 1, in two
\* provider calls
C20_Witness ==
    /\ pc = "done" /\ call.op = "translate_segments_batch"
    /\ call.batch_size = 1 /\ Len(call.segments) = 2
    /\ call.provider = "gemini"
    /\ result.status = "ok" /\ Len(netLog) = 2

\* the provider answered call k as the "-ES" stand-in does
StubAnswered(k) == netLog[k].resp = StubResponse(netLog[k].req)

\* C21: when translate_segments has translated the list "Hello" (0.0-3.0),
\* "World" (3.0-6.0) against a provider that appends "-ES" to each text, and
\* SRT is then generated from the result with the translated texts, the
\* content has exactly two blocks, numbered 1 and 2 in that order: the first
\* 00:00:00,000 --> 00:00:03,000 with "Hello-ES", the second
\* 00:00:03,000 --> 00:00:06,000 with "World-ES".
C21_EndToEndHelloWorld ==
    [][(/\ pc = "done" /\ call.op = "translate_segments"
        /\ call.segments = HelloWorld /\ result.status = "ok"
        /\ \A k \in 1..Len(netLog) : StubAnswered(k)
        /\ call'.op = "generate_srt_from_segments" /\ call'.use_translated)
       => /\ call'.segments = result.value
          /\ pc' = "done"
          /\ result' = Returned(
                [kind |-> "srt",
                 blocks |-> <<[index |-> 1,
                               start |-> <<"0","0",":","0","0",":","0","0",",","0","0","0">>,
                               end |-> <<"0","0",":","0","0",":","0","3",",","0","0","0">>,
                               content |-> <<"H","e","l","l","o","-","E","S">>],
                              [index |-> 2,
                               start |-> <<"0","0",":","0","0",":","0","3",",","0","0","0">>,
                               end |-> <<"0","0",":","0","0",":","0","6",",","0","0","0">>,
                               content |-> <<"W","o","r","l","d","-","E","S">>]>>])]_vars

\* C21 witness: SRT was generated from the translation of "Hello", "World"
\* that the "-ES" provider produced in two calls
C21_Witness ==
    /\ pc = "done" /\ call.op = "generate_srt_from_segments" /\ call.use_translated
    /\ Len(netLog) = 2 /\ StubAnswered(1) /\ StubAnswered(2)
    /\ netLog[1].req.prompt.text = TextHello /\ netLog[2].req.prompt.text = TextWorld
    /\ Len(call.segments) = 2
    /\ call.segments[1].translated_text = <<"H","e","l","l","o","-","E","S">>
    /\ result.status = "ok" /\ Len(result.value.blocks) = 2

\* the operations that start from a file, and the path of that file
LoaderOps ==
    {"load_transcript_from_csv", "load_srt", "generate_srt_from_csv",
     "translate_from_csv", "build_context_from_file"}

InputPath(c) == IF c.op = "load_srt" THEN c.srt_path ELSE c.csv_path

\* C22: load_transcript_from_csv, load_srt, generate_srt_from_csv,
\* translate_from_csv and build_context_from_file, entered with a path at
\* which there is no file, raise FileNotFoundError itself (not a wrapped
\* generic Exception) at once, having entered no gateway method, issued no
\* backend request and left the file system as it was.
C22_MissingInputIsNotFound ==
    [][(/\ pc # "wait" /\ call'.op \in LoaderOps
        /\ InputPath(call') \notin DOMAIN fs.files)
       => /\ pc' = "done"
          /\ result'.status = "error"
          /\ result'.type = "FileNotFoundError"
          /\ net' = NoRequest /\ netLog' = netLog /\ gwLog' = gwLog
          /\ fs' = fs]_vars

\* C22 witness: translate_from_csv was given a path without a file while a
\* transcript saved under another path exists
C22_Witness ==
    /\ pc = "done" /\ call.op = "translate_from_csv"
    /\ call.csv_path \notin DOMAIN fs.files
    /\ \E q \in CsvPaths : q \in DOMAIN fs.files
    /\ call.target_language = "es"
    /\ result.status = "error"

\* the provider calls the invocation has begun: those completed and the one
\* in flight, in the order they began
CallsBegun ==
    [k \in 1..Len(netLog) |-> netLog[k].req]
        \o (IF net = NoRequest THEN <<>> ELSE <<net>>)

\* C23: translate_segments makes its provider calls one after the other in
\* list order, one per segment: the k-th call begun is the call for segment
\* k, the call in flight (there is at most one) is the one for the segment
\* after those whose calls have completed, and a run that returns a list
\* over N segments has made exactly N calls.
C23_OneCallPerSegmentInOrder ==
    call.op = "translate_segments"
    => /\ Len(CallsBegun) <= Len(call.segments)
       /\ \A k \in 1..Len(CallsBegun) :
             /\ CallsBegun[k].kind = "chat"
             /\ CallsBegun[k].prompt.text = call.segments[k].text
       /\ (pc = "wait") = (net # NoRequest)
       /\ net # NoRequest => Len(CallsBegun) = Len(netLog) + 1
       /\ (pc = "done" /\ result.status = "ok")
             => /\ Len(netLog) = Len(call.segments)
                /\ Len(result.value) = Len(call.segments)

\* C23 witness: the call for the second of two different segments is in
\* flight after the first has completed
C23_Witness ==
    /\ pc = "wait" /\ call.op = "translate_segments"
    /\ Len(call.segments) = 2 /\ Len(netLog) = 1
    /\ netLog[1].resp.ok
    /\ call.segments[1].text # call.segments[2].text
    /\ net.prompt.text = call.segments[2].text

\* C24: a provider failure ends the operation with that failure.  When the
\* call for segment k of translate_segments fails, the invocation is over
\* with the gateway's error and no list, the k calls made are the calls for
\* segments 1..k, each made once, and none is in flight or made afterwards;
\* a failed transcription call likewise ends transcribe_audio with the
\* gateway's error after that one call.
C24_ProviderFailurePropagates ==
    /\ call.op = "translate_segments"
       => \A k \in 1..Len(netLog) :
             ~netLog[k].resp.ok
             => /\ pc = "done" /\ net = NoRequest
                /\ result.status = "error"
                /\ result.type = "Exception" /\ result.tag = "TranslationFailed"
                /\ Len(netLog) = k
                /\ \A j \in 1..k :
                      netLog[j].req.prompt.text = call.segments[j].text
                /\ \A j \in 1..(k - 1) : netLog[j].resp.ok
    /\ call.op = "transcribe_audio"
       => \A k \in 1..Len(netLog) :
             ~netLog[k].resp.ok
             => /\ pc = "done" /\ net = NoRequest
                /\ result.status = "error"
                /\ result.type = "Exception" /\ result.tag = "TranscriptionFailed"
                /\ Len(netLog) = 1

\* C24 witness: the call for the first of two segments failed
C24_Witness ==
    /\ pc = "done" /\ call.op = "translate_segments"
    /\ Len(call.segments) = 2
    /\ Len(netLog) = 1 /\ ~netLog[1].resp.ok
    /\ result.status = "error"

\* C25: transcribe_and_save entered with neither output_csv_path nor file_id
\* has entered no gateway method and issued no backend request, and when it
\* is over it has raised; for an audio file that exists and a supported
\* language what it raised is the ValueError 'Either output_csv_path or
\* file_id must be provided'.
C25_DestinationCheckedBeforeTranscription ==
    (call.op = "transcribe_and_save" /\ call.output_csv_path = None
        /\ call.file_id = None)
    => /\ NoProviderCall
       /\ pc = "done"
       /\ result.status = "error"
       /\ (FileExists(call.audio_path) /\ Supported(call.language))
             => result.type = "ValueError" /\ result.tag = "NoOutputDestination"

\* C26: every backend request build_context makes is a translation request
\* of the gateway whose source language and target language are both the
\* source language build_context was given.
C26_SummaryIsSameLanguage ==
    call.op = "build_context"
    => \A k \in 1..Len(CallsBegun) :
          /\ CallsBegun[k].kind = "chat"
          /\ CallsBegun[k].prompt.template = "translator"
          /\ CallsBegun[k].prompt.source_language = call.source_language
          /\ CallsBegun[k].prompt.target_language = call.source_language

\* C27: no step of a translate_segments invocation changes the list it was
\* given: from its entry until it has returned or raised, the argument has
\* the same segments in the same order, each with the same fields and
\* values; what it returns is a list of records of their own, each with the
\* translated_text that the input segment still lacks.
C27_InputNotMutated ==
    [][(call.op = "translate_segments" /\ call'.op = "translate_segments")
       => /\ call'.segments = call.segments
          /\ (pc' = "done" /\ result'.status = "ok")
                => /\ Len(result'.value) = Len(call.segments)
                   /\ \A i \in 1..Len(call.segments) :
                         /\ "translated_text" \in DOMAIN result'.value[i]
                         /\ DOMAIN call'.segments[i] = {"start", "end", "text"}
                         /\ result'.value[i] # call'.segments[i]]_vars

\* C27 witness: translate_segments has returned the translation of two
\* segments
C27_Witness ==
    /\ pc = "done" /\ call.op = "translate_segments"
    /\ Len(call.segments) = 2 /\ Len(netLog) = 2
    /\ result.status = "ok"
    /\ result.value[2].translated_text # <<>>
    /\ "translated_text" \notin DOMAIN call.segments[2]

\* task t stands where translate_segments run alone with its arguments
\* stands after the provider answers t has received
StandsAsAlone(t) ==
    LET ref == ReplayTranslateSegments(call[t],
                                       [k \in 1..Len(netLog[t]) |-> netLog[t][k].resp])
    IN  /\ pc[t] = ref.pc
        /\ net[t] = ref.net
        /\ [k \in 1..Len(netLog[t]) |-> netLog[t][k].req] = ref.reqs
        /\ result[t] = ref.result

\* C28 (under SpecPair): however the steps of two translate_segments
\* invocations interleave, the gateway's two clients are at every moment the
\* ones its construction made from the settings, and each invocation stands
\* (same calls made, same call in flight, same list returned or error
\* raised) where it would stand run alone with the provider answers it has
\* received.
C28_ConcurrentInvocationsIndependent ==
    /\ openai_client = LLMClientInit(settings).openai_client
    /\ gemini_client = LLMClientInit(settings).gemini_client
    /\ \A t \in Tasks :
          call[t].op = "translate_segments" => StandsAsAlone(t)

\* C28 witness: both invocations have returned a list of two after their
\* provider calls alternated
C28_Witness ==
    /\ \A t \in Tasks : /\ pc[t] = "done" /\ result[t].status = "ok"
                         /\ Len(netLog[t]) = 2
    /\ call[1].segments # call[2].segments
    /\ call[1].provider # call[2].provider
    /\ [k \in 1..Len(gwLog) |-> gwLog[k].task] = <<1, 2, 1, 2>>
    /\ result[1].value[1].translated_text # result[2].value[1].translated_text

\* the CSV file save_transcript_to_csv writes for segments
TranscriptFileOf(segments) ==
    [kind |-> "csv", header |-> <<"start_time", "end_time", "text">>,
     rows |-> [k \in 1..Len(segments) |-> TranscriptRow(segments[k])]]

\* the path transcribe_and_save is to write to
CsvDestination(c) ==
    IF c.output_csv_path = None THEN GetFilePath(c.file_id, "transcript", "csv")
    ELSE c.output_csv_path

InvalidForSrt(segments, use_translated) ==
    \/ segments = <<>>
    \/ \E k \in 1..Len(segments) :
          ~({"start", "end", IF use_translated THEN "translated_text" ELSE "text"}
               \subseteq DOMAIN segments[k])

\* C30: save_srt given an empty list, or a list with a segment that lacks
\* start, end or the selected text field, raises ValueError and leaves the
\* file system exactly as it was: no directory is created, no file is
\* created, and a file that exists at output_path keeps its content.
C30_InvalidSegmentsLeaveFilesAlone ==
    [][(/\ pc = "idle" /\ call'.op = "save_srt"
        /\ InvalidForSrt(call'.segments, call'.use_translated))
       => /\ pc' = "done"
          /\ result'.status = "error"
          /\ result'.type = "ValueError"
          /\ fs' = fs]_vars

\* C30 witness: save_srt was given, for the path of an existing subtitle
\* file, two segments of which the second lacks its end; the file is as it
\* was
C30_Witness ==
    /\ pc = "done" /\ call.op = "save_srt"
    /\ call.output_path = OldSrtPath
    /\ Len(call.segments) = 2
    /\ "end" \in DOMAIN call.segments[1]
    /\ "end" \notin DOMAIN call.segments[2]
    /\ result.status = "error"
    /\ fs.files[OldSrtPath] = OldSrt

====
